---- MODULE Spec2Model ----
(***************************************************************************)
(* Model of the story / image generation pipeline of VGA-IISc:             *)
(*   - the text stages of StoryImageGenerator (Story-2.py, Story3.py):     *)
(*     first-'{' / last-'}' extraction followed by json.loads;             *)
(*   - the multi-modal stages (character image, background batch, scene    *)
(*     composite) writing PNG files into the working directory;            *)
(*   - the scripted pipeline run of testing.py against new_server.py;      *)
(*   - the Streamlit session of application.py.                            *)
(* Texts are sequences of one-character strings.                           *)
(***************************************************************************)
EXTENDS Integers, Sequences, FiniteSets, TLC

VARIABLES
    stage,           \* text stage last invoked ("none" before the first call)
    response_text,   \* text returned by the text capability
    origin,          \* how the response was drawn: embedded object, free text, raise
    result,          \* value returned by the stage operation
    diagnostics      \* the response texts printed by the stage's except clause

VARIABLES
    variant,         \* the StoryImageGenerator in use: "Story-2", "Story3", "story_generator"
    fs,              \* the working directory: file name -> image bytes
    now              \* the clock, in seconds

VARIABLES
    bg_pc,           \* generate_background_images: "idle", "loop", "returned"
    bg_n,            \* len(background_descriptions)
    bg_i,            \* the loop index i
    generated_files, \* the list being built
    bg_calls,        \* item index of every generate_content call made, in order
    bg_failed,       \* items whose call raised or returned no image
    bg_raised,       \* items whose call, or the handling of its response, raised
    bg_slept,        \* seconds slept after every generate_content call, in order
    bg_response      \* what /generate-background-images answered

VARIABLES
    comp_pc,         \* scene-composite operation: "idle" before the call, "done" after
    comp_called,     \* generate_content was called by the scene-composite operation
    comp_response,   \* kind of the response to that call, "none" without a call
    comp_chars,      \* character_images_bytes of the last composite call
    comp_bg,         \* background_image_byte of the last composite call
    prompt_parts,    \* the list built by the operation
    forwarded,       \* contents= as received by generate_content
    comp_result      \* what the operation returned

VARIABLES
    char_count,      \* character-image calls made so far
    char_prev,       \* the character-image call before the last one
    char_last        \* the last character-image call

VARIABLES
    driver,                  \* what drives the stages: "none", "main" (testing.py), "ui"
    pc,                      \* testing.py main: the statement about to run
    crash,                   \* the exception that ended main, "none" otherwise
    story_data,              \* answer of /generate-story
    m_i,                     \* index of the running for loop
    character_image_files,
    background_image_files,
    scenes,                  \* answer of /generate-scene-descriptions
    scene_image_files,
    composite_log,           \* every /generate-scene-image request made
    audio_assets,            \* number of audio descriptions collected
    script_data,             \* answer of /generate-script
    story_result,            \* what generate_story_and_characters returned on the server
    char_images_b64,         \* main's list of encoded character images (line 88)
    requests,                \* endpoint of every make_post_request call, in order
    stages_run               \* stages of the run that have been executed

VARIABLES
    ep_route,        \* the endpoint that answered: <<server, route>> (<<>> before a request)
    ep_body,         \* the JSON body of the request
    ep_status,       \* the HTTP status answered (0 before a request)
    ep_error,        \* whether the answer is an error value
    ep_called        \* whether the handler called the generator

VARIABLES
    pcs_pc,          \* process_complete_story: "idle", "loop", "returned", "raised"
    pcs_story,       \* story_data
    pcs_i,           \* the loop index i
    generated_images,\* the list being built
    pcs_calls,       \* generate_character_image calls made
    pcs_result       \* what the operation returned: "unset", "None", "record"

VARIABLES
    put_log          \* every image.save made: <<kind of asset, file name>>, in order

VARIABLES
    ui_clicks,               \* buttons pressed so far in the Streamlit session
    ui_story_data,           \* st.session_state.story_data
    ui_character_images,     \* st.session_state.character_images
    ui_scene_descriptions,   \* st.session_state.scene_descriptions
    ui_final_scene_images,   \* st.session_state.final_scene_images
    ui_composite,            \* the last press of button 4: the images held, the
                             \* files missing, the list sent, the requests made;
                             \* last is set while it was the last button pressed
    ui_story_press           \* set while the last press was button 1: the answer's
                             \* status and the later outputs held before it

textVars == <<stage, response_text, origin, result, diagnostics>>
uiVars == <<ui_clicks, ui_story_data, ui_character_images, ui_scene_descriptions,
            ui_final_scene_images, ui_composite, ui_story_press>>
mainVars == <<pc, crash, story_data, m_i, character_image_files, background_image_files,
              scenes, scene_image_files, composite_log, audio_assets, script_data,
              story_result, char_images_b64>>
runVars == <<driver, requests, stages_run>>
compVars == <<comp_pc, comp_called, comp_response, comp_chars, comp_bg, prompt_parts,
              forwarded, comp_result>>
charVars == <<char_count, char_prev, char_last>>
genVars == <<variant, fs, now>>
batchVars == <<bg_pc, bg_n, bg_i, generated_files, bg_calls, bg_failed, bg_raised, bg_slept,
               bg_response>>
epVars == <<ep_route, ep_body, ep_status, ep_error, ep_called>>
pcsVars == <<pcs_pc, pcs_story, pcs_i, generated_images, pcs_calls, pcs_result>>
idVars == <<put_log>>
vars == <<textVars, genVars, batchVars, compVars, charVars, mainVars, runVars, uiVars,
          epVars, pcsVars, idVars>>

(***************************************************************************)
(* Bounds                                                                  *)
(***************************************************************************)
MaxFreeLen == 3      \* longest free-form response text
MaxPadLen == 1       \* longest commentary before / after an embedded object
MaxMembers == 2      \* most members of an embedded object
MaxParts == 2        \* most parts of a multi-modal response
NumBytes == 2        \* distinct image payloads
MaxTime == 2         \* last second at which the clock still ticks on its own
MaxBg == 3           \* most background descriptions
MaxRefs == 2         \* most character reference images in a composite call
MaxCharCalls == 2    \* most character-image calls in one behaviour
MaxChars == 2        \* most character descriptions of a story
MaxScenes == 3       \* most scene descriptions of a run
MaxClicks == 4       \* most button presses in one session
MaxLost == 1         \* most referenced files removed from the working directory
MaxB64Len == 4       \* longest text of an image field of a request
MaxSaves == 2        \* most images saved by the generators on their own

(***************************************************************************)
(* Python str.find / str.rfind / slicing                                   *)
(***************************************************************************)
Min(a, b) == IF a < b THEN a ELSE b
Max(a, b) == IF a > b THEN a ELSE b

\* str.find(c): 0-based index of the first occurrence, -1 if absent
PyFind(s, c) ==
    IF \E i \in 1..Len(s) : s[i] = c
    THEN (CHOOSE i \in 1..Len(s) : s[i] = c /\ \A j \in 1..(i-1) : s[j] # c) - 1
    ELSE -1

\* str.rfind(c): 0-based index of the last occurrence, -1 if absent
PyRFind(s, c) ==
    IF \E i \in 1..Len(s) : s[i] = c
    THEN (CHOOSE i \in 1..Len(s) : s[i] = c /\ \A j \in (i+1)..Len(s) : s[j] # c) - 1
    ELSE -1

\* one slice bound: negative counts from the end, everything clamps to 0..len
PyBound(n, len) == IF n < 0 THEN Max(len + n, 0) ELSE Min(n, len)

\* s[a:b]
PySlice(s, a, b) ==
    LET lo == PyBound(a, Len(s))
        hi == PyBound(b, Len(s))
    IN  IF lo < hi THEN SubSeq(s, lo + 1, hi) ELSE <<>>

(***************************************************************************)
(* json.loads on the grammar: object, array, string, non-negative integer, *)
(* with insignificant blanks.  A parsed value is a tagged pair:            *)
(*   <<"num", n>>  <<"str", chars>>  <<"arr", items>>  <<"obj", pairs>>    *)
(* where pairs is a sequence of <<key chars, value>> in insertion order.   *)
(***************************************************************************)
Digits == <<"0", "1", "2", "3", "4", "5", "6", "7", "8", "9">>
IsDigit(c) == \E d \in 1..10 : Digits[d] = c
DigitVal(c) == (CHOOSE d \in 1..10 : Digits[d] = c) - 1
IsWS(c) == c = " "

ParseFail == [ok |-> FALSE, val |-> <<>>, pos |-> 0]
ParseOk(v, p) == [ok |-> TRUE, val |-> v, pos |-> p]

RECURSIVE SkipWS(_, _)
SkipWS(s, i) ==
    IF i <= Len(s) /\ IsWS(s[i]) THEN SkipWS(s, i + 1) ELSE i

\* s[i] is the opening quote; the alphabet has no backslash, so no escapes
RECURSIVE ScanString(_, _, _)
ScanString(s, i, acc) ==
    IF i > Len(s) THEN ParseFail
    ELSE IF s[i] = "\"" THEN ParseOk(<<"str", acc>>, i + 1)
    ELSE ScanString(s, i + 1, Append(acc, s[i]))

RECURSIVE ScanDigits(_, _, _)
ScanDigits(s, i, n) ==
    IF i <= Len(s) /\ IsDigit(s[i])
    THEN ScanDigits(s, i + 1, 10 * n + DigitVal(s[i]))
    ELSE ParseOk(<<"num", n>>, i)

\* a leading 0 ends the number: "01" is the number 0 followed by extra data
ScanNumber(s, i) ==
    IF s[i] = "0" THEN ParseOk(<<"num", 0>>, i + 1) ELSE ScanDigits(s, i, 0)

\* dict[key] = val: an existing key keeps its position and takes the new value
DictSet(pairs, key, val) ==
    IF \E k \in 1..Len(pairs) : pairs[k][1] = key
    THEN [k \in 1..Len(pairs) |->
             IF pairs[k][1] = key THEN <<key, val>> ELSE pairs[k]]
    ELSE Append(pairs, <<key, val>>)

RECURSIVE ParseValue(_, _)
RECURSIVE ParseMembers(_, _, _)
RECURSIVE ParseItems(_, _, _)

\* s[i] must be the quote that opens a member's key
ParseMembers(s, i, acc) ==
    IF i > Len(s) \/ s[i] # "\"" THEN ParseFail
    ELSE LET key == ScanString(s, i + 1, <<>>)
         IN  IF ~key.ok THEN ParseFail
             ELSE LET c == SkipWS(s, key.pos)
                  IN  IF c > Len(s) \/ s[c] # ":" THEN ParseFail
                      ELSE LET v == ParseValue(s, SkipWS(s, c + 1))
                           IN  IF ~v.ok THEN ParseFail
                               ELSE LET m == SkipWS(s, v.pos)
                                        acc2 == DictSet(acc, key.val[2], v.val)
                                    IN  IF m > Len(s) THEN ParseFail
                                        ELSE IF s[m] = "}" THEN ParseOk(<<"obj", acc2>>, m + 1)
                                        ELSE IF s[m] = "," THEN ParseMembers(s, SkipWS(s, m + 1), acc2)
                                        ELSE ParseFail

ParseItems(s, i, acc) ==
    LET v == ParseValue(s, i)
    IN  IF ~v.ok THEN ParseFail
        ELSE LET m == SkipWS(s, v.pos)
                 acc2 == Append(acc, v.val)
             IN  IF m > Len(s) THEN ParseFail
                 ELSE IF s[m] = "]" THEN ParseOk(<<"arr", acc2>>, m + 1)
                 ELSE IF s[m] = "," THEN ParseItems(s, SkipWS(s, m + 1), acc2)
                 ELSE ParseFail

ParseValue(s, i) ==
    IF i > Len(s) THEN ParseFail
    ELSE IF s[i] = "\"" THEN ScanString(s, i + 1, <<>>)
    ELSE IF s[i] = "{" THEN
        LET j == SkipWS(s, i + 1)
        IN  IF j <= Len(s) /\ s[j] = "}" THEN ParseOk(<<"obj", <<>>>>, j + 1)
            ELSE ParseMembers(s, j, <<>>)
    ELSE IF s[i] = "[" THEN
        LET j == SkipWS(s, i + 1)
        IN  IF j <= Len(s) /\ s[j] = "]" THEN ParseOk(<<"arr", <<>>>>, j + 1)
            ELSE ParseItems(s, j, <<>>)
    ELSE IF IsDigit(s[i]) THEN ScanNumber(s, i)
    ELSE ParseFail

\* json.loads(s): ok with the value, or not ok (JSONDecodeError)
JsonLoads(s) ==
    LET v == ParseValue(s, SkipWS(s, 1))
    IN  IF v.ok /\ SkipWS(s, v.pos) = Len(s) + 1 THEN v ELSE ParseFail

(***************************************************************************)
(* Text stages: response -> first '{' .. last '}' -> json.loads            *)
(***************************************************************************)
None == [kind |-> "None", val |-> <<>>]
Raised == [kind |-> "raised", val |-> <<>>]
Value(v) == [kind |-> "value", val |-> v]

BraceStartLast(text) == PyRFind(text, "{")

\* start = response_text.find("{")
BraceStart(text) == PyFind(text, "{")

BraceEndNoPlusOne(text) == PyRFind(text, "}")

\* end = response_text.rfind("}") + 1
BraceEnd(text) == PyRFind(text, "}") + 1

ExtractObjectWholeTextFallback(text) ==
    LET start == BraceStart(text)
        end == BraceEnd(text)
        r == JsonLoads(IF start = -1 \/ end = 0 THEN text ELSE PySlice(text, start, end))
    IN  IF r.ok THEN Value(r.val) ELSE None

\* try: json.loads(response_text[start:end]) except JSONDecodeError: return None
ExtractObject(text) ==
    LET r == JsonLoads(PySlice(text, BraceStart(text), BraceEnd(text)))
    IN  IF r.ok THEN Value(r.val) ELSE None

\* Story3.generate_scene_descriptions raises JSONDecodeError itself when a
\* brace is missing, before slicing
ExtractObjectChecked(text) ==
    IF BraceStart(text) = -1 \/ BraceEnd(text) = 0 THEN None
    ELSE ExtractObject(text)

TextStages == {"story", "scenes", "scenes3", "script", "audio"}

\* the stages whose chain.invoke sits inside a try with "except Exception"
CatchesInvoke(st) == st \in {"scenes", "script", "audio"}

\* the value a text stage returns for a response text
StageParse(st, text) ==
    IF st = "scenes3" THEN ExtractObjectChecked(text) ELSE ExtractObject(text)

EmitsRawTextNever(st) == FALSE

\* the except clause that prints "LLM Response was: {response_text}"
EmitsRawText(st) == st = "scenes3"

\* the response texts printed by the except clause of a stage that failed to
\* parse; the parser's message, printed by every stage, holds no response text
Diagnostics(st, text, res) ==
    IF res = None /\ EmitsRawText(st) THEN <<text>> ELSE <<>>

(***************************************************************************)
(* Responses of the text capability                                        *)
(***************************************************************************)
FreeChars == {"{", "}", "[", "]", "\"", ":", ",", "1", "a", " "}
PadChars == {"a", " ", "]"}

RECURSIVE StringsUpTo(_, _)
StringsUpTo(chars, n) ==
    IF n = 0 THEN {<<>>}
    ELSE LET shorter == StringsUpTo(chars, n - 1)
         IN  shorter \cup {Append(s, c) : s \in shorter, c \in chars}

RECURSIVE DigitsOf(_)
DigitsOf(n) ==
    IF n < 10 THEN <<Digits[n + 1]>>
    ELSE DigitsOf(n \div 10) \o <<Digits[(n % 10) + 1]>>

RECURSIVE Render(_, _)
RECURSIVE RenderList(_, _, _)
\* the items (or members, when obj) from position k on, comma separated
RenderList(items, sp, obj) ==
    IF items = <<>> THEN <<>>
    ELSE LET one == IF obj
                    THEN <<"\"">> \o Head(items)[1] \o <<"\"", ":">> \o sp
                             \o Render(Head(items)[2], sp)
                    ELSE Render(Head(items), sp)
         IN  IF Len(items) = 1 THEN one
             ELSE one \o <<",">> \o sp \o RenderList(Tail(items), sp, obj)

\* a JSON text denoting v; sp is the blank run written after separators
Render(v, sp) ==
    IF v[1] = "num" THEN DigitsOf(v[2])
    ELSE IF v[1] = "str" THEN <<"\"">> \o v[2] \o <<"\"">>
    ELSE IF v[1] = "arr" THEN <<"[">> \o RenderList(v[2], sp, FALSE) \o <<"]">>
    ELSE <<"{">> \o sp \o RenderList(v[2], sp, TRUE) \o sp \o <<"}">>

EmbKeys == {<<"a">>, <<"}", "{">>}
EmbAtoms == { <<"num", 10>>, <<"str", <<"a", "}">>>>, <<"arr", <<>>>>,
              <<"arr", << <<"str", <<"{">>>>, <<"num", 7>> >>>>,
              <<"obj", << <<(<<"a">>), <<"num", 1>>>> >>>> }

\* objects of up to MaxMembers members with distinct keys
EmbObjects ==
    { <<"obj", ps>> : ps \in
        { q \in UNION { [1..n -> EmbKeys \X EmbAtoms] : n \in 0..MaxMembers } :
            \A i, j \in DOMAIN q : i # j => q[i][1] # q[j][1] } }

Pads == StringsUpTo(PadChars, MaxPadLen)
FreeTexts == StringsUpTo(FreeChars, MaxFreeLen)

TextIdle ==
    /\ stage = "none"
    /\ response_text = <<>>
    /\ origin = [kind |-> "none", val |-> <<>>]
    /\ result = None
    /\ diagnostics = <<>>

\* the capability returns free text
RunTextFree(st) ==
    \E text \in FreeTexts :
        /\ stage' = st
        /\ response_text' = text
        /\ origin' = [kind |-> "free", val |-> <<>>]
        /\ result' = StageParse(st, text)
        /\ diagnostics' = Diagnostics(st, text, result')

\* the capability returns commentary around the text of an object
RunTextEmbedded(st) ==
    \E v \in EmbObjects, prefix \in Pads, suffix \in Pads, sp \in {<<>>, <<" ">>} :
        /\ stage' = st
        /\ response_text' = prefix \o Render(v, sp) \o suffix
        /\ origin' = [kind |-> "embedded", val |-> v]
        /\ result' = StageParse(st, response_text')
        /\ diagnostics' = Diagnostics(st, response_text', result')

\* the capability raises: caught inside the stage or propagated to the caller
RunTextRaises(st) ==
    /\ stage' = st
    /\ response_text' = <<>>
    /\ origin' = [kind |-> "raise", val |-> <<>>]
    /\ result' = IF CatchesInvoke(st) THEN None ELSE Raised
    /\ diagnostics' = <<>>

\* commentary that holds braces of its own
BracePadChars == {"{", "}", "a"}
BracePads == StringsUpTo(BracePadChars, MaxPadLen)

\* the capability returns the text of an object inside commentary with a
\* '{' before the object or a '}' after it
RunTextBraced(st) ==
    \E v \in EmbObjects, prefix \in BracePads, suffix \in BracePads, sp \in {<<>>, <<" ">>} :
        /\ (\E k \in 1..Len(prefix) : prefix[k] = "{")
              \/ (\E k \in 1..Len(suffix) : suffix[k] = "}")
        /\ stage' = st
        /\ response_text' = prefix \o Render(v, sp) \o suffix
        /\ origin' = [kind |-> "braced", val |-> v]
        /\ result' = StageParse(st, response_text')
        /\ diagnostics' = Diagnostics(st, response_text', result')

RunText ==
    /\ stage = "none"
    /\ \E st \in TextStages :
          \/ RunTextFree(st)
          \/ RunTextEmbedded(st)
          \/ RunTextRaises(st)

(***************************************************************************)
(* Multi-modal capability and the file names of the generated assets       *)
(***************************************************************************)
ImageBytes == 1..NumBytes

\* a part is 0 (text only, inline_data is None) or the bytes of an image
PartVals == {0} \cup ImageBytes

\* generate_content raises, returns no candidate, returns inline data that
\* Image.open rejects, or returns parts
MMResponses ==
    {[kind |-> "raise", parts |-> <<>>], [kind |-> "nocandidate", parts |-> <<>>],
     [kind |-> "undecodable", parts |-> <<>>]}
    \cup {[kind |-> "ok", parts |-> p] : p \in StringsUpTo(PartVals, MaxParts)}

\* the claim's notion of a failed item: the call raised or returned no image
NoImage(resp) == resp.kind # "ok" \/ \A k \in 1..Len(resp.parts) : resp.parts[k] = 0

\* for part in parts: if part.inline_data: ... return / break
\* the bytes of the first part that carries inline data, 0 if there is none
FirstInline(resp) ==
    IF resp.kind # "ok" \/ \A k \in 1..Len(resp.parts) : resp.parts[k] = 0 THEN 0
    ELSE resp.parts[CHOOSE k \in 1..Len(resp.parts) :
                        resp.parts[k] # 0 /\ \A j \in 1..(k-1) : resp.parts[j] = 0]

\* what a stage that returns on the first inline part sees of a response
CallOutcomes == {[kind |-> resp.kind, inline |-> FirstInline(resp)] : resp \in MMResponses}

\* the exception raised by the call or by the statements that handle its
\* response: candidates[0] on an empty list, Image.open on bad bytes
ExceptionOf(kind) ==
    IF kind = "raise" THEN "APIError"
    ELSE IF kind = "nocandidate" THEN "IndexError"
    ELSE IF kind = "undecodable" THEN "UnidentifiedImageError"
    ELSE "none"

\* an except clause, given as the set of classes it names, catches exc
Catches(clause, exc) == "Exception" \in clause \/ exc \in clause

MMExceptClauseApiOnly(v, op) == {"APIError"}

\* the except clause around generate_content and the loop over the parts
MMExceptClause(v, op) == {"Exception"}

\* the exception of a call leaves the operation op
Escapes(v, op, kind) ==
    ExceptionOf(kind) # "none" /\ ~Catches(MMExceptClause(v, op), ExceptionOf(kind))

PngExt == <<".", "p", "n", "g">>
BackgroundPrefix == <<"b", "a", "c", "k", "g", "r", "o", "u", "n", "d", "_">>
BgPrefix == <<"b", "g", "_">>

\* datetime.now().strftime("%Y%m%d%H%M%S"): one text per second
Timestamp(t) == DigitsOf(t)

\* f"background_{i + 1}.png" / f"bg_{i + 1}_{timestamp}.png"
BgFilename(v, i, t) ==
    IF v = "Story3"
    THEN BgPrefix \o DigitsOf(i + 1) \o <<"_">> \o Timestamp(t) \o PngExt
    ELSE BackgroundPrefix \o DigitsOf(i + 1) \o PngExt

\* image.save(filename): creates or overwrites
Save(files, name, bytes) ==
    [f \in DOMAIN files \cup {name} |-> IF f = name THEN bytes ELSE files[f]]

GenIdle(vs) ==
    /\ variant \in vs
    /\ fs = <<>>
    /\ now = 0

\* time passes between two operations
Tick ==
    /\ now < MaxTime
    /\ now' = now + 1
    /\ UNCHANGED <<variant, fs>>

(***************************************************************************)
(* generate_background_images and its endpoint                             *)
(***************************************************************************)
BatchIdle ==
    /\ bg_pc = "idle"
    /\ bg_n = 0
    /\ bg_i = 0
    /\ generated_files = <<>>
    /\ bg_calls = <<>>
    /\ bg_failed = {}
    /\ bg_raised = {}
    /\ bg_slept = <<>>
    /\ bg_response = [status |-> 0, body |-> [error |-> "none"]]

BgItemFilesNoBreak(files, v, i, t, resp) ==
    IF resp.kind # "ok" THEN files
    ELSE files \o [k \in 1..Cardinality({j \in 1..Len(resp.parts) : resp.parts[j] # 0})
                      |-> BgFilename(v, i, t)]

\* one pass of the loop body over generated_files: the first inline part is
\* saved and appended, then break; an exception leaves the list as it was
BgItemFiles(files, v, i, t, resp) ==
    IF FirstInline(resp) = 0 THEN files ELSE Append(files, BgFilename(v, i, t))

\* the same pass over the directory
BgItemSave(files, v, i, t, resp) ==
    IF FirstInline(resp) = 0 THEN files
    ELSE Save(files, BgFilename(v, i, t), FirstInline(resp))

BgItemClockAlways(v, t, resp) == t + 1

\* Story3 sleeps one second after saving a background
BgItemClock(v, t, resp) ==
    IF v = "Story3" /\ FirstInline(resp) # 0 THEN t + 1 ELSE t

\* the endpoint is entered with a list of n descriptions
BgStart ==
    /\ bg_pc = "idle"
    /\ \E n \in 0..MaxBg : bg_n' = n
    /\ bg_pc' = "loop"
    /\ UNCHANGED <<bg_i, generated_files, bg_calls, bg_failed, bg_raised, bg_slept,
                   bg_response>>
    /\ UNCHANGED genVars

\* for i, desc in enumerate(background_descriptions): one generate_content call
BgItem ==
    /\ bg_pc = "loop"
    /\ bg_i < bg_n
    /\ \E resp \in MMResponses :
          /\ generated_files' = BgItemFiles(generated_files, variant, bg_i, now, resp)
          /\ fs' = BgItemSave(fs, variant, bg_i, now, resp)
          /\ now' = BgItemClock(variant, now, resp)
          /\ bg_slept' = Append(bg_slept, BgItemClock(variant, now, resp) - now)
          /\ bg_failed' = IF NoImage(resp) THEN bg_failed \cup {bg_i} ELSE bg_failed
          /\ bg_raised' = IF ExceptionOf(resp.kind) # "none"
                          THEN bg_raised \cup {bg_i} ELSE bg_raised
          \* an exception that leaves the loop body ends the operation
          /\ bg_pc' = IF Escapes(variant, "background", resp.kind) THEN "raised" ELSE bg_pc
    /\ bg_calls' = Append(bg_calls, bg_i)
    /\ bg_i' = bg_i + 1
    /\ UNCHANGED <<bg_n, bg_response, variant>>

BgResponseTruthy(files, n) ==
    IF files # <<>> THEN [status |-> 200, body |-> [filenames |-> files]]
    ELSE [status |-> 500, body |-> [error |-> "failed"]]

\* jsonify({"filenames": filenames}) if filenames is not None else 500
BgResponse(files, n) == [status |-> 200, body |-> [filenames |-> files]]

\* return generated_files; the endpoint answers
BgReturn ==
    /\ bg_pc = "loop"
    /\ bg_i = bg_n
    /\ bg_pc' = "returned"
    /\ bg_response' = BgResponse(generated_files, bg_n)
    /\ UNCHANGED <<bg_n, bg_i, generated_files, bg_calls, bg_failed, bg_raised, bg_slept>>
    /\ UNCHANGED genVars

(***************************************************************************)
(* generate_scene_image_with_references                                    *)
(***************************************************************************)
TextPart(tag, k) == [kind |-> "text", tag |-> tag, data |-> k]
ImagePart(b) == [kind |-> "image", tag |-> "image", data |-> b]

\* bytes received from the caller: 0 stands for bytes Image.open cannot decode
InBytes == {0} \cup ImageBytes

ScenePrefix == <<"s", "c", "e", "n", "e", "_">>

\* f"scene_{scene_index + 1}.png" / f"scene_{scene_index + 1}_{timestamp}.png"
SceneFilename(v, i, t) ==
    IF v = "Story3"
    THEN ScenePrefix \o DigitsOf(i + 1) \o <<"_">> \o Timestamp(t) \o PngExt
    ELSE ScenePrefix \o DigitsOf(i + 1) \o PngExt

\* story_generator.py takes character images only
TakesBackground(v) == v \in {"Story-2", "Story3"}

PromptPartsNoCharInstruction(v, chars, bg) ==
    <<TextPart("scene", 0), TextPart("bg_instruction", 0), ImagePart(bg)>>
    \o [k \in 1..Len(chars) |-> ImagePart(chars[k])]

PromptPartsImageFirst(v, chars, bg) ==
    <<TextPart("scene", 0), ImagePart(bg), TextPart("bg_instruction", 0),
      TextPart("char_instruction", 0)>>
    \o [k \in 1..Len(chars) |-> ImagePart(chars[k])]

\* prompt_parts = [...] followed by one append per character image
PromptParts(v, chars, bg) ==
    (IF v = "Story-2" THEN
        <<TextPart("scene", 0), TextPart("bg_instruction", 0), ImagePart(bg),
          TextPart("char_instruction", 0)>>
     ELSE IF v = "Story3" THEN
        <<TextPart("style", 0), TextPart("scene", 0), TextPart("rules_header", 0)>>
        \o [k \in 1..11 |-> TextPart("rule", k)]
        \o <<TextPart("bg_instruction", 0), ImagePart(bg),
             TextPart("char_instruction", 0)>>
     ELSE
        <<TextPart("style", 0), TextPart("scene", 0), TextPart("ref_instruction", 0)>>)
    \o [k \in 1..Len(chars) |-> ImagePart(chars[k])]

\* Image.open sits outside the try: undecodable input bytes raise to the caller
InputsDecode(v, chars, bg) ==
    /\ TakesBackground(v) => bg # 0
    /\ \A k \in 1..Len(chars) : chars[k] # 0

CompIdle ==
    /\ comp_pc = "idle"
    /\ comp_called = FALSE
    /\ comp_response = "none"
    /\ comp_chars = <<>>
    /\ comp_bg = 0
    /\ prompt_parts = <<>>
    /\ forwarded = <<>>
    /\ comp_result = None

\* one call of the operation up to its return
GenerateSceneImage ==
    \E chars \in StringsUpTo(InBytes, MaxRefs), bg \in InBytes,
       idx \in 0..1, out \in CallOutcomes :
        /\ comp_pc = "idle"
        /\ comp_pc' = "done"
        /\ comp_chars' = chars
        /\ comp_bg' = bg
        /\ IF InputsDecode(variant, chars, bg)
           THEN /\ prompt_parts' = PromptParts(variant, chars, bg)
                /\ forwarded' = prompt_parts'
                /\ comp_called' = TRUE
                /\ comp_response' = out.kind
                /\ IF out.inline # 0
                   THEN /\ fs' = Save(fs, SceneFilename(variant, idx, now), out.inline)
                        /\ comp_result' = Value(SceneFilename(variant, idx, now))
                   ELSE /\ fs' = fs
                        /\ comp_result' = IF Escapes(variant, "composite", out.kind)
                                          THEN Raised ELSE None
           ELSE /\ prompt_parts' = <<>>
                /\ forwarded' = <<>>
                /\ comp_called' = FALSE
                /\ comp_response' = "none"
                /\ fs' = fs
                /\ comp_result' = Raised
        /\ UNCHANGED <<variant, now>>

CompNext ==
    \/ GenerateSceneImage /\ UNCHANGED <<textVars, batchVars, charVars, mainVars, runVars, uiVars, epVars, pcsVars, idVars>>
    \/ Tick /\ UNCHANGED <<textVars, batchVars, compVars, charVars, mainVars, runVars, uiVars, epVars, pcsVars, idVars>>

(***************************************************************************)
(* generate_character_image                                                *)
(***************************************************************************)
Upper == <<"A", "B", "K">>
Lower == <<"a", "b", "k">>

\* str.lower() on one character
LowerChar(c) ==
    IF \E k \in 1..Len(Upper) : Upper[k] = c
    THEN Lower[CHOOSE k \in 1..Len(Upper) : Upper[k] = c]
    ELSE c

\* s.replace(' ', '_')
ReplaceSpaces(s) == [k \in 1..Len(s) |-> IF s[k] = " " THEN "_" ELSE s[k]]

\* name.replace(' ', '_').lower()
SanitizedName(name) == [k \in 1..Len(name) |-> LowerChar(ReplaceSpaces(name)[k])]

UnknownCharacter ==
    <<"U", "n", "k", "n", "o", "w", "n", "_", "C", "h", "a", "r", "a", "c", "t", "e", "r">>

\* the character dictionaries a caller sends
Characters ==
    {[has_name |-> TRUE, name |-> n] : n \in {<<"A", " ", "b">>, <<"a", "_", "b">>, <<"K">>}}
    \cup {[has_name |-> FALSE, name |-> <<>>]}

Style == <<"x", " ", "y">>

\* character.get("name", "Unknown_Character"); story_generator.py indexes
\* character["name"] and raises KeyError when the key is missing
RaisesKeyError(v, character) == v = "story_generator" /\ ~character.has_name
NameOf(character) == IF character.has_name THEN character.name ELSE UnknownCharacter

CharFilenameStamped(v, name, t) ==
    <<"c", "h", "a", "r", "_">> \o SanitizedName(name) \o <<"_">> \o Timestamp(t) \o PngExt

\* Story-2: f"{name.replace(' ', '_').lower()}.png"
\* Story3: f"char_{sanitized_name}_{timestamp}.png"
\* story_generator: f"{name.replace(' ', '_').lower()}_{style.replace(' ', '_')}.png"
CharFilename(v, name, t) ==
    IF v = "Story3"
    THEN <<"c", "h", "a", "r", "_">> \o SanitizedName(name) \o <<"_">> \o Timestamp(t) \o PngExt
    ELSE IF v = "story_generator"
    THEN SanitizedName(name) \o <<"_">> \o ReplaceSpaces(Style) \o PngExt
    ELSE SanitizedName(name) \o PngExt

NoCall == [called |-> FALSE, character |-> [has_name |-> FALSE, name |-> <<>>],
           file |-> <<>>, bytes |-> 0, time |-> 0, response |-> "none", raised |-> FALSE]

CharIdle ==
    /\ char_count = 0
    /\ char_prev = NoCall
    /\ char_last = NoCall

\* one call of the operation up to its return; file is <<>> when it returned None
GenerateCharacterImage ==
    \E character \in Characters, out \in CallOutcomes :
        /\ char_count < MaxCharCalls
        /\ char_count' = char_count + 1
        /\ ~RaisesKeyError(variant, character)
        /\ LET filename == CharFilename(variant, NameOf(character), now)
               inline == out.inline
               ok == inline # 0
           IN  /\ fs' = IF ok THEN Save(fs, filename, inline) ELSE fs
               /\ char_last' = [called |-> TRUE, character |-> character,
                                file |-> IF ok THEN filename ELSE <<>>,
                                bytes |-> inline, time |-> now,
                                response |-> out.kind,
                                raised |-> Escapes(variant, "character", out.kind)]
        /\ char_prev' = char_last
        /\ UNCHANGED <<variant, now>>

CharNext ==
    \/ GenerateCharacterImage /\ UNCHANGED <<textVars, batchVars, compVars, mainVars, runVars, uiVars, epVars, pcsVars, idVars>>
    \/ Tick /\ UNCHANGED <<textVars, batchVars, compVars, charVars, mainVars, runVars, uiVars, epVars, pcsVars, idVars>>

(***************************************************************************)
(* testing.py: main, against new_server.py and its generator               *)
(* (module "new": the operations of Story-2.py)                            *)
(***************************************************************************)
MainIdle ==
    /\ pc = "off"
    /\ crash = "none"
    /\ story_data = [ok |-> FALSE, has_storyline |-> FALSE, has_chars |-> FALSE,
                     chars |-> <<>>, has_bgs |-> FALSE, n_bgs |-> 0]
    /\ m_i = 0
    /\ character_image_files = <<>>
    /\ background_image_files = <<>>
    /\ scenes = [ok |-> FALSE, n |-> 0]
    /\ scene_image_files = <<>>
    /\ composite_log = <<>>
    /\ audio_assets = 0
    /\ script_data = [ok |-> FALSE]
    /\ story_result = [ok |-> FALSE, has_storyline |-> FALSE, has_chars |-> FALSE,
                       chars |-> <<>>, has_bgs |-> FALSE, n_bgs |-> 0]
    /\ char_images_b64 = <<>>

RunIdle(d) ==
    /\ driver = d
    /\ requests = <<>>
    /\ stages_run = {}

\* the characters of a story; a name may occur twice
StoryCharacters ==
    {[has_name |-> TRUE, name |-> n] : n \in {<<"A", " ", "b">>, <<"K">>}}

\* the non-empty objects /generate-story can answer: each of the three keys
\* present or not
StoryAnswers ==
    {[ok |-> TRUE, has_storyline |-> hs, has_chars |-> hc, chars |-> cs,
      has_bgs |-> hb, n_bgs |-> nb] :
        hs \in BOOLEAN, hc \in BOOLEAN, cs \in StringsUpTo(StoryCharacters, MaxChars),
        hb \in BOOLEAN, nb \in 0..MaxBg}

StoryAnswer(a) ==
    /\ a \in StoryAnswers
    /\ ~a.has_chars => a.chars = <<>>
    /\ ~a.has_bgs => a.n_bgs = 0

\* what the capability answers to one server-side call, or the server is
\* not reachable at all
\* (the run never looks into an image: one payload stands for all)
OneImageResponses ==
    {[kind |-> "raise", parts |-> <<>>], [kind |-> "ok", parts |-> <<0>>],
     [kind |-> "ok", parts |-> <<1>>]}
Unreachable == [kind |-> "unreachable", parts |-> <<>>]

\* what a loop that only tests the returned filename sees of those answers
OneImageOutcomes == {FirstInline(resp) : resp \in OneImageResponses}

\* base64.b64encode(f.read()).decode('utf-8'), None when the file is missing
B64Encode(bytes) == <<"b64", bytes>>
B64Decode(text) == text[2]
ReadImageAsBase64(files, name) ==
    IF name \in DOMAIN files THEN B64Encode(files[name]) ELSE <<>>

\* generate_background_images run to its end on the responses resps
RECURSIVE BgBatchFiles(_, _, _, _, _)
BgBatchFiles(files, v, i, t, resps) ==
    IF i = Len(resps) THEN files
    ELSE BgBatchFiles(BgItemFiles(files, v, i, t, resps[i + 1]), v, i + 1,
                      BgItemClock(v, t, resps[i + 1]), resps)

RECURSIVE BgBatchSave(_, _, _, _, _)
BgBatchSave(files, v, i, t, resps) ==
    IF i = Len(resps) THEN files
    ELSE BgBatchSave(BgItemSave(files, v, i, t, resps[i + 1]), v, i + 1,
                     BgItemClock(v, t, resps[i + 1]), resps)

\* raise_for_status() on a 4xx / 5xx answer, requests.post on a server that
\* cannot be reached
RequestErrorOf(resp) ==
    IF resp.kind = "unreachable" THEN "ConnectionError"
    ELSE IF FirstInline(resp) = 0 THEN "HTTPError"
    ELSE "none"

\* the subclasses of requests.exceptions.RequestException met here
RequestExceptions == {"ConnectionError", "HTTPError"}

RequestExceptClauseConnectionOnly == {"ConnectionError"}

\* make_post_request: except requests.exceptions.RequestException ... return None
RequestExceptClause == {"RequestException"}

\* the error of a request leaves make_post_request
RequestEscapes(err) ==
    /\ err # "none"
    /\ ~Catches(RequestExceptClause, err)
    /\ ~("RequestException" \in RequestExceptClause /\ err \in RequestExceptions)

StoryEndpointOkNeedsStoryline(a) == a.ok /\ a.has_storyline

\* return jsonify(result) if result else handle_error(..., 500): the story
\* endpoint answers 200 for every truthy result (a non-empty object)
StoryEndpointOk(a) == a.ok

AfterCallGoesOn(ok, next) == next

AfterCallRestarts(ok, next) == IF ok THEN next ELSE "story"

\* if not story_data: return (likewise scenes_data, script_data): the
\* statement main runs after a call that answered (ok) or reported failure
AfterCall(ok, next) == IF ok THEN next ELSE "returned"

\* STEP 1: story_data = make_post_request('/generate-story'); if not story_data: return
MainStory ==
    /\ driver = "main" /\ pc = "story"
    /\ requests' = Append(requests, "story")
    /\ \/ \E a \in StoryAnswers :
             /\ StoryAnswer(a)
             /\ story_result' = a
             /\ story_data' = IF StoryEndpointOk(a) THEN a ELSE story_data
             /\ pc' = AfterCall(StoryEndpointOk(a), "chars")
       \/ /\ pc' = AfterCall(FALSE, "chars")
          /\ UNCHANGED <<story_data, story_result>>
    /\ now' = now + 2
    /\ UNCHANGED <<crash, m_i, character_image_files, background_image_files, scenes,
                   scene_image_files, composite_log, audio_assets, script_data,
                   char_images_b64>>
    /\ UNCHANGED <<driver, stages_run, variant, fs>>

\* STEP 2 with character_descriptions = None: the for statement raises TypeError
MainCharCrash ==
    /\ driver = "main" /\ pc = "chars"
    /\ ~story_data.has_chars
    /\ pc' = "crashed"
    /\ crash' = "TypeError"
    /\ UNCHANGED <<story_data, m_i, character_image_files, background_image_files, scenes,
                   scene_image_files, composite_log, audio_assets, script_data,
                   story_result, char_images_b64>>
    /\ UNCHANGED <<runVars, genVars>>

\* STEP 2, one pass: /generate-character-image, sleep, append the filename
MainCharItem ==
    /\ driver = "main" /\ pc = "chars"
    /\ story_data.has_chars
    /\ m_i < Len(story_data.chars)
    /\ \E resp \in OneImageResponses \cup {Unreachable} :
         LET filename == CharFilename(variant, NameOf(story_data.chars[m_i + 1]), now)
             ok == FirstInline(resp) # 0
             err == RequestErrorOf(resp)
         IN  /\ fs' = IF ok THEN Save(fs, filename, FirstInline(resp)) ELSE fs
             /\ character_image_files' =
                    IF ok THEN Append(character_image_files, filename)
                    ELSE character_image_files
             /\ pc' = IF RequestEscapes(err) THEN "crashed" ELSE pc
             /\ crash' = IF RequestEscapes(err) THEN err ELSE crash
    /\ m_i' = m_i + 1
    /\ requests' = Append(requests, "char")
    /\ stages_run' = stages_run \cup {"characters"}
    /\ now' = now + 2
    /\ UNCHANGED <<story_data, background_image_files, scenes,
                   scene_image_files, composite_log, audio_assets, script_data,
                   story_result, char_images_b64>>
    /\ UNCHANGED <<driver, variant>>

\* STEP 3: one /generate-background-images request for the whole batch;
\* background_descriptions = None makes enumerate raise on the server: a 500
MainBackgrounds ==
    /\ driver = "main" /\ pc = "chars"
    /\ story_data.has_chars
    /\ m_i = Len(story_data.chars)
    /\ \/ /\ story_data.has_bgs
          /\ \E resps \in [1..story_data.n_bgs -> OneImageResponses] :
                /\ background_image_files' = BgBatchFiles(<<>>, variant, 0, now, resps)
                /\ fs' = BgBatchSave(fs, variant, 0, now, resps)
       \/ /\ background_image_files' = <<>>
          /\ fs' = fs
    /\ pc' = "scenes"
    /\ requests' = Append(requests, "bg")
    /\ stages_run' = stages_run \cup {"characters", "backgrounds"}
    /\ now' = now + 2
    /\ UNCHANGED <<crash, story_data, m_i, character_image_files, scenes,
                   scene_image_files, composite_log, audio_assets, script_data,
                   story_result, char_images_b64>>
    /\ UNCHANGED <<driver, variant>>

CharImagesB64FirstOnly(files, names) ==
    IF names = <<>> THEN <<>> ELSE <<ReadImageAsBase64(files, names[1])>>

\* [read_image_as_base64(f) for f in character_image_files if f]
CharImagesB64(files, names) ==
    [k \in 1..Len(names) |-> ReadImageAsBase64(files, names[k])]

MainScenesBeforeBackgrounds ==
    /\ driver = "main"
    /\ pc = "scenes" \/ (pc = "chars" /\ story_data.has_chars)
    /\ requests' = Append(requests, "scenes")
    /\ \/ /\ \E n \in 0..MaxScenes : scenes' = [ok |-> TRUE, n |-> n]
          /\ pc' = "composites"
          /\ char_images_b64' = CharImagesB64(fs, character_image_files)
       \/ /\ pc' = "returned"
          /\ UNCHANGED <<scenes, char_images_b64>>
    /\ m_i' = 0
    /\ now' = now + 2
    /\ UNCHANGED <<crash, story_data, character_image_files, background_image_files,
                   scene_image_files, composite_log, audio_assets, script_data,
                   story_result>>
    /\ UNCHANGED <<driver, stages_run, variant, fs>>

\* STEP 4: scenes_data = make_post_request(...); if not scenes_data: return
\* scene_descriptions_list = scenes_data.get("scenes", [])
MainScenes ==
    /\ driver = "main" /\ pc = "scenes"
    /\ requests' = Append(requests, "scenes")
    /\ \/ /\ \E n \in 0..MaxScenes : scenes' = [ok |-> TRUE, n |-> n]
          /\ pc' = AfterCall(TRUE, "composites")
          \* char_images_b64 = [read_image_as_base64(f) for f in character_image_files if f]
          /\ char_images_b64' = CharImagesB64(fs, character_image_files)
       \/ /\ pc' = AfterCall(FALSE, "composites")
          /\ UNCHANGED <<scenes, char_images_b64>>
    /\ m_i' = 0
    /\ now' = now + 2
    /\ UNCHANGED <<crash, story_data, character_image_files, background_image_files,
                   scene_image_files, composite_log, audio_assets, script_data,
                   story_result>>
    /\ UNCHANGED <<driver, stages_run, variant, fs>>

SkipsForNoBackgroundNever(files) == FALSE

\* if not background_image_files: ... break
SkipsForNoBackground(files) == files = <<>>

BgChoiceClamped(i, files) == files[Min(i, Len(files) - 1) + 1]

\* background_image_files[i % len(background_image_files)]
BgChoice(i, files) == files[(i % Len(files)) + 1]

\* STEP 5, one pass of the loop that gets past the break
MainSceneItem ==
    /\ driver = "main" /\ pc = "composites"
    /\ m_i < scenes.n
    /\ ~SkipsForNoBackground(background_image_files)
    /\ IF Len(background_image_files) = 0
       THEN \* i % 0
            /\ pc' = "crashed"
            /\ crash' = "ZeroDivisionError"
            /\ UNCHANGED <<m_i, scene_image_files, composite_log, requests, stages_run,
                           fs, now>>
       ELSE LET bg_file == BgChoice(m_i, background_image_files)
                bg_image_b64 == ReadImageAsBase64(fs, bg_file)
            IN  /\ UNCHANGED <<pc, crash>>
                /\ m_i' = m_i + 1
                /\ IF char_images_b64 = <<>> \/ bg_image_b64 = <<>>
                   THEN \* continue
                        UNCHANGED <<scene_image_files, composite_log, requests, stages_run,
                                    fs, now>>
                   ELSE /\ requests' = Append(requests, "scene_image")
                        /\ stages_run' = stages_run \cup {"composites"}
                        /\ composite_log' = Append(composite_log,
                               [scene |-> m_i, bg_file |-> bg_file,
                                char_files |-> character_image_files,
                                character_images_base64 |-> char_images_b64,
                                background_image_base64 |-> bg_image_b64])
                        /\ now' = now + 2
                        /\ \E resp \in OneImageResponses \cup {Unreachable} :
                             LET filename == SceneFilename(variant, m_i, now)
                                 \* a missing character file is sent as null: 400
                                 ok == /\ FirstInline(resp) # 0
                                       /\ \A k \in 1..Len(char_images_b64) :
                                              char_images_b64[k] # <<>>
                             IN  /\ fs' = IF ok THEN Save(fs, filename, FirstInline(resp))
                                                ELSE fs
                                 /\ scene_image_files' =
                                        IF ok THEN Append(scene_image_files, filename)
                                        ELSE scene_image_files
    /\ UNCHANGED <<story_data, character_image_files, background_image_files, scenes,
                   audio_assets, script_data,
                   story_result, char_images_b64>>
    /\ UNCHANGED <<driver, variant>>

\* STEP 6, after the loop ended or broke: script_data = ...; if not script_data: return
MainScript ==
    /\ driver = "main" /\ pc = "composites"
    /\ m_i = scenes.n \/ SkipsForNoBackground(background_image_files)
    /\ requests' = Append(requests, "script")
    /\ stages_run' = stages_run \cup {"script"}
    /\ \/ script_data' = [ok |-> TRUE] /\ pc' = AfterCall(TRUE, "audio")
       \/ script_data' = [ok |-> FALSE] /\ pc' = AfterCall(FALSE, "audio")
    /\ m_i' = 0
    /\ now' = now + 2
    /\ UNCHANGED <<crash, story_data, character_image_files, background_image_files,
                   scenes, scene_image_files, composite_log, audio_assets,
                   story_result, char_images_b64>>
    /\ UNCHANGED <<driver, variant, fs>>

NextIndexRetry(i, ok) == IF ok THEN i + 1 ELSE i

\* for i, desc in enumerate(scene_descriptions_list): the next item, whatever
\* the request returned
NextIndex(i, ok) == i + 1

\* STEP 7, one pass: /generate-audio-description, sleep, append the answer
MainAudioItem ==
    /\ driver = "main" /\ pc = "audio"
    /\ m_i < scenes.n
    /\ requests' = Append(requests, "audio")
    /\ stages_run' = stages_run \cup {"audio"}
    /\ \E err \in RequestExceptions \cup {"none"} :
          /\ audio_assets' = IF err = "none" THEN audio_assets + 1 ELSE audio_assets
          /\ pc' = IF RequestEscapes(err) THEN "crashed" ELSE pc
          /\ crash' = IF RequestEscapes(err) THEN err ELSE crash
          /\ m_i' = NextIndex(m_i, err = "none")
    /\ now' = now + 2
    /\ UNCHANGED <<story_data, character_image_files, background_image_files,
                   scenes, scene_image_files, composite_log, script_data, story_result,
                   char_images_b64>>
    /\ UNCHANGED <<driver, variant, fs>>

\* the final summary is printed
MainFinish ==
    /\ driver = "main" /\ pc = "audio"
    /\ m_i = scenes.n
    /\ pc' = "done"
    /\ UNCHANGED <<crash, story_data, m_i, character_image_files, background_image_files,
                   scenes, scene_image_files, composite_log, audio_assets, script_data,
                   story_result, char_images_b64>>
    /\ UNCHANGED <<runVars, genVars>>

MainNext ==
    \/ MainStory /\ UNCHANGED <<textVars, batchVars, compVars, charVars, uiVars, epVars, pcsVars, idVars>>
    \/ MainCharCrash /\ UNCHANGED <<textVars, batchVars, compVars, charVars, uiVars, epVars, pcsVars, idVars>>
    \/ MainCharItem /\ UNCHANGED <<textVars, batchVars, compVars, charVars, uiVars, epVars, pcsVars, idVars>>
    \/ MainBackgrounds /\ UNCHANGED <<textVars, batchVars, compVars, charVars, uiVars, epVars, pcsVars, idVars>>
    \/ MainScenes /\ UNCHANGED <<textVars, batchVars, compVars, charVars, uiVars, epVars, pcsVars, idVars>>
    \/ MainSceneItem /\ UNCHANGED <<textVars, batchVars, compVars, charVars, uiVars, epVars, pcsVars, idVars>>
    \/ MainScript /\ UNCHANGED <<textVars, batchVars, compVars, charVars, uiVars, epVars, pcsVars, idVars>>
    \/ MainAudioItem /\ UNCHANGED <<textVars, batchVars, compVars, charVars, uiVars, epVars, pcsVars, idVars>>
    \/ MainFinish /\ UNCHANGED <<textVars, batchVars, compVars, charVars, uiVars, epVars, pcsVars, idVars>>

(***************************************************************************)
(* application.py: the Streamlit session, against flask_server.py and      *)
(* story_generator.py.  One action is one press of a button, run to the    *)
(* end of the script.                                                      *)
(***************************************************************************)
NoStory == [ok |-> FALSE, has_storyline |-> FALSE, has_chars |-> FALSE,
            chars |-> <<>>, has_bgs |-> FALSE, n_bgs |-> 0]
NoScenes == [some |-> FALSE, n |-> 0]

\* the last press was not button 1
NoStoryPress == [pressed |-> FALSE, ok |-> FALSE, before |-> <<>>]

\* lines 16-23
UiIdle ==
    /\ ui_clicks = 0
    /\ ui_story_data = NoStory
    /\ ui_character_images = <<>>
    /\ ui_scene_descriptions = NoScenes
    /\ ui_final_scene_images = <<>>
    /\ ui_composite = [pressed |-> FALSE, last |-> FALSE, held |-> <<>>, missing |-> {},
                       sent |-> <<>>, requests |-> 0]
    /\ ui_story_press = NoStoryPress

\* for filename in character_images: if os.path.exists(filename): append the
\* encoded file
RECURSIVE ExistingEncoded(_, _)
ExistingEncoded(files, names) ==
    IF names = <<>> THEN <<>>
    ELSE (IF Head(names) \in DOMAIN files THEN <<B64Encode(files[Head(names)])>> ELSE <<>>)
         \o ExistingEncoded(files, Tail(names))

\* the filenames appended by the loop of button 2; inl[k] holds the first
\* inline part of the k-th answer, 0 when the stage returned None
RECURSIVE UiCharFiles(_, _, _, _, _)
UiCharFiles(files, v, chars, t, inl) ==
    IF chars = <<>> THEN files
    ELSE UiCharFiles(
            IF Head(inl) # 0
            THEN Append(files, CharFilename(v, NameOf(Head(chars)), t)) ELSE files,
            v, Tail(chars), t, Tail(inl))

RECURSIVE UiCharSave(_, _, _, _, _)
UiCharSave(files, v, chars, t, inl) ==
    IF chars = <<>> THEN files
    ELSE UiCharSave(
            IF Head(inl) # 0
            THEN Save(files, CharFilename(v, NameOf(Head(chars)), t), Head(inl))
            ELSE files,
            v, Tail(chars), t, Tail(inl))

\* the filenames appended by the loop of button 4, scene i first
RECURSIVE UiSceneFiles(_, _, _, _, _)
UiSceneFiles(files, v, i, t, inl) ==
    IF i = Len(inl) THEN files
    ELSE UiSceneFiles(
            IF inl[i + 1] # 0
            THEN Append(files, SceneFilename(v, i, t)) ELSE files,
            v, i + 1, t, inl)

RECURSIVE UiSceneSave(_, _, _, _, _)
UiSceneSave(files, v, i, t, inl) ==
    IF i = Len(inl) THEN files
    ELSE UiSceneSave(
            IF inl[i + 1] # 0
            THEN Save(files, SceneFilename(v, i, t), inl[i + 1]) ELSE files,
            v, i + 1, t, inl)

Click ==
    /\ driver = "ui"
    /\ ui_clicks < MaxClicks
    /\ ui_clicks' = ui_clicks + 1

HeldAfterStoryKept(held) == held

\* status 200: character_images = [], scene_descriptions = None,
\* final_scene_images = []
HeldAfterStory(held) == <<<<>>, NoScenes, <<>>>>

\* "1. Generate Story and Characters"; the story of story_generator.py has
\* a storyline and character descriptions, the session reads no other key
Button1 ==
    /\ Click
    /\ LET held == <<ui_character_images, ui_scene_descriptions, ui_final_scene_images>>
       IN  \/ /\ \E a \in StoryAnswers : StoryAnswer(a) /\ ~a.has_bgs /\ ui_story_data' = a
              /\ ui_character_images' = HeldAfterStory(held)[1]
              /\ ui_scene_descriptions' = HeldAfterStory(held)[2]
              /\ ui_final_scene_images' = HeldAfterStory(held)[3]
              /\ ui_story_press' = [pressed |-> TRUE, ok |-> TRUE, before |-> held]
           \/ /\ ui_story_data' = NoStory
              /\ UNCHANGED <<ui_character_images, ui_scene_descriptions,
                             ui_final_scene_images>>
              /\ ui_story_press' = [pressed |-> TRUE, ok |-> FALSE, before |-> held]
    /\ ui_composite' = [ui_composite EXCEPT !.last = FALSE]
    /\ UNCHANGED <<runVars, genVars>>

Button2 ==
    /\ Click
    /\ ui_story_data.ok
    /\ LET characters == ui_story_data.chars
       IN  \E inl \in [1..Len(characters) -> OneImageOutcomes] :
              /\ ui_character_images' = UiCharFiles(<<>>, variant, characters, now, inl)
              /\ fs' = UiCharSave(fs, variant, characters, now, inl)
    /\ stages_run' = stages_run \cup {"characters"}
    /\ UNCHANGED <<ui_story_data, ui_scene_descriptions, ui_final_scene_images>>
    /\ ui_composite' = [ui_composite EXCEPT !.last = FALSE]
    /\ ui_story_press' = NoStoryPress
    /\ UNCHANGED <<driver, requests, variant, now>>

\* "Generate Scene Descriptions from Story"; response.json().get("scenes")
\* is None when the answer has no such key
Button3 ==
    /\ Click
    /\ ui_story_data.ok
    /\ \/ \E n \in 0..MaxScenes : ui_scene_descriptions' = [some |-> TRUE, n |-> n]
       \/ ui_scene_descriptions' = NoScenes
       \/ UNCHANGED ui_scene_descriptions
    /\ stages_run' = stages_run \cup {"scenes"}
    /\ UNCHANGED <<ui_story_data, ui_character_images, ui_final_scene_images>>
    /\ ui_composite' = [ui_composite EXCEPT !.last = FALSE]
    /\ ui_story_press' = NoStoryPress
    /\ UNCHANGED <<driver, requests, genVars>>

\* st.session_state.final_scene_images = []
CompositesAtPress(final) == <<>>

CompositeOfferedAlways(images, descriptions) == TRUE

\* if st.session_state.character_images and st.session_state.scene_descriptions:
CompositeOffered(images, descriptions) ==
    images # <<>> /\ descriptions.some /\ descriptions.n > 0

\* "Generate Final Scene Images"
Button4 ==
    /\ Click
    /\ ui_story_data.ok
    /\ CompositeOffered(ui_character_images, ui_scene_descriptions)
    /\ \E inl \in [1..ui_scene_descriptions.n -> OneImageOutcomes] :
          /\ ui_final_scene_images' =
                UiSceneFiles(CompositesAtPress(ui_final_scene_images), variant, 0, now, inl)
          /\ fs' = UiSceneSave(fs, variant, 0, now, inl)
    /\ ui_composite' =
          [pressed |-> TRUE, last |-> TRUE, held |-> ui_character_images,
           missing |-> {k \in 1..Len(ui_character_images) :
                           ui_character_images[k] \notin DOMAIN fs},
           sent |-> ExistingEncoded(fs, ui_character_images),
           requests |-> ui_scene_descriptions.n]
    /\ stages_run' = stages_run \cup {"composites"}
    /\ ui_story_press' = NoStoryPress
    /\ UNCHANGED <<ui_story_data, ui_character_images, ui_scene_descriptions>>
    /\ UNCHANGED <<driver, requests, variant, now>>

\* the outputs the page displays: every display block is inside
\* `if st.session_state.story_data:`
ShownCharacterImages == IF ui_story_data.ok THEN ui_character_images ELSE <<>>
ShownSceneDescriptions == IF ui_story_data.ok THEN ui_scene_descriptions ELSE NoScenes
ShownFinalSceneImages == IF ui_story_data.ok THEN ui_final_scene_images ELSE <<>>

UiNext ==
    \/ Button1 /\ UNCHANGED <<textVars, batchVars, compVars, charVars, mainVars, epVars, pcsVars, idVars>>
    \/ Button2 /\ UNCHANGED <<textVars, batchVars, compVars, charVars, mainVars, epVars, pcsVars, idVars>>
    \/ Button3 /\ UNCHANGED <<textVars, batchVars, compVars, charVars, mainVars, epVars, pcsVars, idVars>>
    \/ Button4 /\ UNCHANGED <<textVars, batchVars, compVars, charVars, mainVars, epVars, pcsVars, idVars>>

(***************************************************************************)
(* Specifications                                                          *)
(***************************************************************************)
BatchNext ==
    \/ BgStart /\ UNCHANGED <<textVars, compVars, charVars, mainVars, runVars, uiVars, epVars, pcsVars, idVars>>
    \/ BgItem /\ UNCHANGED <<textVars, compVars, charVars, mainVars, runVars, uiVars, epVars, pcsVars, idVars>>
    \/ BgReturn /\ UNCHANGED <<textVars, compVars, charVars, mainVars, runVars, uiVars, epVars, pcsVars, idVars>>
    \/ Tick /\ UNCHANGED <<textVars, batchVars, compVars, charVars, mainVars, runVars, uiVars, epVars, pcsVars, idVars>>

(***************************************************************************)
(* The stage endpoints of new_server.py and flask_server.py                *)
(***************************************************************************)
\* the characters of an image field: a letter of the Base64 alphabet, the
\* pad, a character outside the alphabet
B64Chars == {"A", "=", "!"}
B64Texts == StringsUpTo(B64Chars, MaxB64Len)

\* binascii.a2b_base64 as base64.b64decode calls it (validate=False):
\* characters outside the alphabet are skipped; a pad that completes a quad
\* ends the decoding; at the end of the text an incomplete quad is an error.
\* quad is the position in the current quad, pads the pads counted in it,
\* n the letters decoded.
RECURSIVE A2bBase64(_, _, _, _, _)
A2bBase64(text, i, quad, pads, n) ==
    LET bytes == 3 * (n \div 4) + (IF n % 4 = 0 THEN 0 ELSE (n % 4) - 1)
    IN  IF i > Len(text)
        THEN IF quad # 0 THEN [ok |-> FALSE, bytes |-> 0] ELSE [ok |-> TRUE, bytes |-> bytes]
        ELSE IF text[i] = "="
             THEN IF quad >= 2 /\ quad + pads + 1 >= 4
                  THEN [ok |-> TRUE, bytes |-> bytes]
                  ELSE A2bBase64(text, i + 1, quad,
                                 IF quad >= 2 THEN pads + 1 ELSE pads, n)
        ELSE IF text[i] = "A"
             THEN A2bBase64(text, i + 1, (quad + 1) % 4, 0, n + 1)
        ELSE A2bBase64(text, i + 1, quad, pads, n)

\* base64.b64decode(img_str)
B64DecodeText(text) == A2bBase64(text, 1, 0, 0, 0)

\* RFC 4648: quads of letters, the last one closed by at most two pads
ValidBase64(text) ==
    /\ Len(text) % 4 = 0
    /\ \A k \in 1..Len(text) : text[k] \in {"A", "="}
    /\ \A k \in 1..Len(text) : text[k] = "=" => k > Len(text) - 2
    /\ \A k \in 1..(Len(text) - 1) : text[k] = "=" => text[k + 1] = "="

Servers == {"new_server", "flask_server"}

\* the routes of a server whose handler only checks the required keys
PlainRoutes(server) ==
    IF server = "new_server"
    THEN {"story", "character_image", "background_images", "scene_descriptions",
          "script", "audio_description"}
    ELSE {"story", "character_image", "scene_descriptions"}

\* the keys every handler asks for with all(k in data for k in [...])
RequiredKeys(server, route) ==
    CASE route = "story" -> {"topic", "description", "style"}
      [] route = "character_image" -> {"character", "style"}
      [] route = "background_images" -> {"background_descriptions", "style"}
      [] route = "scene_descriptions" -> {"storyline", "characters", "style"}
      [] route = "script" -> {"storyline", "scene_descriptions"}
      [] route = "audio_description" -> {"scene_description"}
      [] route = "scene_image" ->
            IF server = "new_server"
            THEN {"scene_description", "style", "character_images_base64",
                  "background_image_base64"}
            ELSE {"scene_description", "style", "character_images"}

\* request.get_json(): None, or an object with some keys; char_images and
\* bg_image are the texts of the image fields when those keys are there
NoBody == [json |-> FALSE, keys |-> {}, char_images |-> <<>>, bg_image |-> <<>>]
Body(keys, imgs, bg) == [json |-> TRUE, keys |-> keys, char_images |-> imgs, bg_image |-> bg]

EpIdle ==
    /\ ep_route = <<>>
    /\ ep_body = NoBody
    /\ ep_status = 0
    /\ ep_error = FALSE
    /\ ep_called = FALSE

\* if not data or not all(k in data for k in required)
MissingFields(body, required) ==
    ~body.json \/ body.keys = {} \/ ~(required \subseteq body.keys)

\* a handler that checks the keys and calls the generator; the answer is 200
\* with the result or 500 with an error
PlainEndpoint(server, route) ==
    /\ ep_route = <<>>
    /\ ep_route' = <<server, route>>
    /\ \E body \in {NoBody} \cup {Body(ks, <<>>, <<>>) : ks \in SUBSET RequiredKeys(server, route)} :
          /\ ep_body' = body
          /\ IF MissingFields(body, RequiredKeys(server, route))
             THEN ep_status' = 400 /\ ep_error' = TRUE /\ ep_called' = FALSE
             ELSE /\ ep_called' = TRUE
                  /\ \/ ep_status' = 200 /\ ep_error' = FALSE
                     \/ ep_status' = 500 /\ ep_error' = TRUE

\* api_generate_scene_image: the keys, then b64decode of every image field
\* inside try / except Exception, then the generator
SceneImageEndpoint(server) ==
    LET required == RequiredKeys(server, "scene_image")
        bgs == IF server = "new_server" THEN B64Texts ELSE {<<>>}
    IN  /\ ep_route = <<>>
        /\ ep_route' = <<server, "scene_image">>
        /\ \E body \in {NoBody} \cup {Body(ks, <<>>, <<>>) : ks \in (SUBSET required) \ {required}}
                       \cup {Body(required, imgs, bg) :
                               imgs \in {<<>>} \cup {<<t>> : t \in B64Texts}, bg \in bgs} :
              /\ ep_body' = body
              /\ IF MissingFields(body, required)
                 THEN ep_status' = 400 /\ ep_error' = TRUE /\ ep_called' = FALSE
                 ELSE IF \/ \E k \in 1..Len(body.char_images) :
                               ~B64DecodeText(body.char_images[k]).ok
                         \/ server = "new_server" /\ ~B64DecodeText(body.bg_image).ok
                 THEN ep_status' = 400 /\ ep_error' = TRUE /\ ep_called' = FALSE
                 ELSE /\ ep_called' = TRUE
                      /\ \/ ep_status' = 200 /\ ep_error' = FALSE
                         \/ ep_status' = 500 /\ ep_error' = TRUE

(***************************************************************************)
(* process_complete_story of image_generation.py                           *)
(***************************************************************************)
\* the characters of a parsed story: with a name, or without the key
PcsCharacters == StoryCharacters \cup {[has_name |-> FALSE, name |-> <<>>]}

\* the non-empty objects generate_story_and_characters can return
PcsStories ==
    {[ok |-> TRUE, has_storyline |-> hs, has_chars |-> hc, chars |-> cs] :
        hs \in BOOLEAN, hc \in BOOLEAN,
        cs \in StringsUpTo(PcsCharacters, MaxChars)}

PcsNoStory == [ok |-> FALSE, has_storyline |-> FALSE, has_chars |-> FALSE, chars |-> <<>>]

PcsIdle ==
    /\ pcs_pc = "idle"
    /\ pcs_story = PcsNoStory
    /\ pcs_i = 0
    /\ generated_images = <<>>
    /\ pcs_calls = 0
    /\ pcs_result = "unset"

\* if image_file: status 'success' else: status 'failed'
StatusOf(image_file) == IF image_file # <<>> THEN "success" ELSE "failed"

\* story_data = self.generate_story_and_characters(...); if not story_data:
\* return None; len(story_data['character_descriptions'])
PcsStory ==
    /\ pcs_pc = "idle"
    /\ \/ \E st \in PcsStories :
             /\ ~st.has_chars => st.chars = <<>>
             /\ pcs_story' = st
             /\ pcs_pc' = IF st.has_chars THEN "loop" ELSE "raised"
             /\ pcs_result' = pcs_result
       \/ \* the story stage returned None
          /\ pcs_story' = PcsNoStory
          /\ pcs_pc' = "returned"
          /\ pcs_result' = "None"
       \/ \* story_chain.invoke raised
          /\ pcs_story' = PcsNoStory
          /\ pcs_pc' = "raised"
          /\ pcs_result' = pcs_result
    /\ UNCHANGED <<pcs_i, generated_images, pcs_calls>>
    /\ UNCHANGED genVars

\* one pass of the loop: story_data["storyline"] is read for the call,
\* character["name"] at the top of generate_character_image and again for
\* the entry
PcsItem ==
    /\ pcs_pc = "loop"
    /\ pcs_i < Len(pcs_story.chars)
    /\ LET character == pcs_story.chars[pcs_i + 1]
       IN  IF ~pcs_story.has_storyline \/ ~character.has_name
           THEN \* KeyError
                /\ pcs_pc' = "raised"
                /\ UNCHANGED <<pcs_i, generated_images, pcs_calls, fs>>
           ELSE /\ \E out \in CallOutcomes :
                     LET filename == CharFilename("story_generator", character.name, now)
                         image_file == IF out.kind = "ok" /\ out.inline # 0
                                       THEN filename ELSE <<>>
                     IN  /\ fs' = IF image_file # <<>> THEN Save(fs, filename, out.inline)
                                                        ELSE fs
                         /\ generated_images' = Append(generated_images,
                                [character |-> character.name, image_file |-> image_file,
                                 status |-> StatusOf(image_file)])
                /\ pcs_calls' = pcs_calls + 1
                /\ pcs_i' = pcs_i + 1
                /\ UNCHANGED pcs_pc
    /\ UNCHANGED <<pcs_story, pcs_result, variant, now>>

\* return {'story_data': ..., 'generated_images': ..., ...}
PcsReturn ==
    /\ pcs_pc = "loop"
    /\ pcs_i = Len(pcs_story.chars)
    /\ pcs_pc' = "returned"
    /\ pcs_result' = "record"
    /\ UNCHANGED <<pcs_story, pcs_i, generated_images, pcs_calls>>
    /\ UNCHANGED genVars

(***************************************************************************)
(* The file names under which the generators save their images             *)
(***************************************************************************)
\* names a story can give a character
IdNames ==
    {<<"B", "a", "c", "k", "g", "r", "o", "u", "n", "d", " ", "1">>,
     <<"s", "c", "e", "n", "e", " ", "2">>,
     <<"K">>}

IdIdle == put_log = <<>>

\* image.save(filename) of an asset of the given kind
SaveAsset(kind, filename, bytes) ==
    /\ Len(put_log) < MaxSaves
    /\ fs' = Save(fs, filename, bytes)
    /\ put_log' = Append(put_log, [kind |-> kind, file |-> filename])
    /\ UNCHANGED <<variant, now>>

\* generate_character_image saves the image it received
SaveCharacterImage ==
    \E name \in IdNames, bytes \in 1..NumBytes :
        SaveAsset("character", CharFilename(variant, name, now), bytes)

\* generate_background_images saves the image of item i; story_generator.py
\* has no background operation
SaveBackgroundImage ==
    \E i \in 0..(MaxBg - 1), bytes \in 1..NumBytes :
        /\ variant # "story_generator"
        /\ SaveAsset("background", BgFilename(variant, i, now), bytes)

\* generate_scene_image_with_references saves the composite of scene_index
SaveSceneImage ==
    \E scene_index \in 0..(MaxScenes - 1), bytes \in 1..NumBytes :
        SaveAsset("scene", SceneFilename(variant, scene_index, now), bytes)

AllVariants == {"Story-2", "Story3", "story_generator"}

StagesIdle == TextIdle /\ BatchIdle /\ CompIdle /\ CharIdle /\ EpIdle /\ PcsIdle /\ IdIdle
NoDriver == MainIdle /\ RunIdle("none") /\ UiIdle

TextInit == StagesIdle /\ GenIdle({"Story-2"}) /\ NoDriver
TextNext == RunText /\ UNCHANGED <<genVars, batchVars, compVars, charVars, mainVars, runVars, uiVars, epVars, pcsVars, idVars>>
SpecText == TextInit /\ [][TextNext]_vars

\* a text stage whose response can also carry braces in the commentary
ExtractNext ==
    \/ TextNext
    \/ /\ stage = "none"
       /\ \E st \in TextStages : RunTextBraced(st)
       /\ UNCHANGED <<genVars, batchVars, compVars, charVars, mainVars, runVars, uiVars,
                      epVars, pcsVars, idVars>>
SpecExtract == TextInit /\ [][ExtractNext]_vars

BatchInit == StagesIdle /\ GenIdle({"Story-2", "Story3"}) /\ NoDriver
SpecBatch == BatchInit /\ [][BatchNext]_vars

CompInit == StagesIdle /\ GenIdle(AllVariants) /\ NoDriver
SpecCompose == CompInit /\ [][CompNext]_vars

CharInit == StagesIdle /\ GenIdle(AllVariants) /\ NoDriver
SpecChar == CharInit /\ [][CharNext]_vars

\* main starts at STEP 1
MainStart ==
    /\ pc = "story"
    /\ crash = "none"
    /\ story_data = [ok |-> FALSE, has_storyline |-> FALSE, has_chars |-> FALSE,
                     chars |-> <<>>, has_bgs |-> FALSE, n_bgs |-> 0]
    /\ m_i = 0
    /\ character_image_files = <<>>
    /\ background_image_files = <<>>
    /\ scenes = [ok |-> FALSE, n |-> 0]
    /\ scene_image_files = <<>>
    /\ composite_log = <<>>
    /\ audio_assets = 0
    /\ script_data = [ok |-> FALSE]
    /\ story_result = [ok |-> FALSE, has_storyline |-> FALSE, has_chars |-> FALSE,
                       chars |-> <<>>, has_bgs |-> FALSE, n_bgs |-> 0]
    /\ char_images_b64 = <<>>

MainInit == StagesIdle /\ GenIdle({"Story-2"}) /\ MainStart /\ RunIdle("main") /\ UiIdle
SpecMain == MainInit /\ [][MainNext]_vars

UiInit == StagesIdle /\ GenIdle({"story_generator"}) /\ MainIdle /\ RunIdle("ui") /\ UiIdle
SpecUi == UiInit /\ [][UiNext]_vars

\* a session that has just had its story generated: the state button 1
\* leaves on status 200 (lines 45-49); the presses are counted from there
SessionInit ==
    /\ StagesIdle /\ GenIdle({"story_generator"}) /\ MainIdle /\ RunIdle("ui")
    /\ ui_clicks = 0
    /\ \E a \in StoryAnswers : StoryAnswer(a) /\ ~a.has_bgs /\ ui_story_data = a
    /\ ui_character_images = <<>>
    /\ ui_scene_descriptions = NoScenes
    /\ ui_final_scene_images = <<>>
    /\ ui_composite = [pressed |-> FALSE, last |-> FALSE, held |-> <<>>, missing |-> {},
                       sent |-> <<>>, requests |-> 0]
    /\ ui_story_press = [pressed |-> TRUE, ok |-> TRUE, before |-> <<<<>>, NoScenes, <<>>>>]
SpecSession == SessionInit /\ [][UiNext]_vars

\* a run of the stages: the script of testing.py or a session of the UI
\* main runs on: every call returns or raises, and the script goes on to its
\* next statement
SpecMainFair == MainInit /\ [][MainNext]_vars /\ WF_vars(MainNext)

RunInit == MainInit \/ UiInit
RunNext == MainNext \/ UiNext
SpecRun == RunInit /\ [][RunNext]_vars

\* one request to one endpoint of a server
EpInit == StagesIdle /\ GenIdle({"Story-2"}) /\ NoDriver
EpNext ==
    \/ /\ \E server \in Servers : \E route \in PlainRoutes(server) : PlainEndpoint(server, route)
       /\ UNCHANGED <<textVars, genVars, batchVars, compVars, charVars, mainVars, runVars,
                      uiVars, pcsVars, idVars>>
    \/ /\ \E server \in Servers : SceneImageEndpoint(server)
       /\ UNCHANGED <<textVars, genVars, batchVars, compVars, charVars, mainVars, runVars,
                      uiVars, pcsVars, idVars>>
SpecEndpoint == EpInit /\ [][EpNext]_vars

\* one call of process_complete_story
PcsInit == StagesIdle /\ GenIdle({"story_generator"}) /\ NoDriver
PcsNext ==
    \/ PcsStory /\ UNCHANGED <<textVars, batchVars, compVars, charVars, mainVars, runVars,
                                uiVars, epVars, idVars>>
    \/ PcsItem /\ UNCHANGED <<textVars, batchVars, compVars, charVars, mainVars, runVars,
                               uiVars, epVars, idVars>>
    \/ PcsReturn /\ UNCHANGED <<textVars, batchVars, compVars, charVars, mainVars, runVars,
                                 uiVars, epVars, idVars>>
SpecPcs == PcsInit /\ [][PcsNext]_vars

\* the generators saving images of the three kinds, in any order
IdsInit == StagesIdle /\ GenIdle(AllVariants) /\ NoDriver
IdsNext ==
    \/ SaveCharacterImage /\ UNCHANGED <<textVars, batchVars, compVars, charVars, mainVars, runVars, uiVars, epVars, pcsVars>>
    \/ SaveBackgroundImage /\ UNCHANGED <<textVars, batchVars, compVars, charVars, mainVars, runVars, uiVars, epVars, pcsVars>>
    \/ SaveSceneImage /\ UNCHANGED <<textVars, batchVars, compVars, charVars, mainVars, runVars, uiVars, epVars, pcsVars>>
    \/ Tick /\ UNCHANGED <<textVars, batchVars, compVars, charVars, mainVars, runVars, uiVars, epVars, pcsVars, idVars>>
SpecIds == IdsInit /\ [][IdsNext]_vars

\* the batches that call the capabilities item by item: a background batch
\* of a generator on its own, a run of main, or a session of the UI
DelayInit == BatchInit \/ RunInit
DelayNext == (driver = "none" /\ BatchNext) \/ RunNext
SpecDelay == DelayInit /\ [][DelayNext]_vars

\* the file names the run or the session refers to
Range(seq) == {seq[k] : k \in 1..Len(seq)}
Referenced ==
    Range(character_image_files) \cup Range(background_image_files)
    \cup Range(ui_character_images)

\* something other than the program removes a referenced file from the
\* working directory
FileLost ==
    /\ Cardinality(Referenced \ DOMAIN fs) < MaxLost
    /\ \E f \in Referenced \cap DOMAIN fs :
          fs' = [g \in DOMAIN fs \ {f} |-> fs[g]]
    /\ UNCHANGED <<variant, now>>
    /\ UNCHANGED <<textVars, batchVars, compVars, charVars, mainVars, runVars, uiVars, epVars, pcsVars, idVars>>

\* a run or a session in a working directory that can lose files
LossyNext == RunNext \/ FileLost
SpecLossy == RunInit /\ [][LossyNext]_vars

\* one multi-modal stage operation of a generator is exercised per behaviour
StageInit == StagesIdle /\ GenIdle(AllVariants) /\ NoDriver
StageNext ==
    \/ /\ comp_pc = "idle" /\ bg_pc = "idle"
       /\ GenerateCharacterImage
       /\ UNCHANGED <<textVars, batchVars, compVars, mainVars, runVars, uiVars, epVars, pcsVars, idVars>>
    \/ /\ char_count = 0 /\ bg_pc = "idle"
       /\ GenerateSceneImage
       /\ UNCHANGED <<textVars, batchVars, charVars, mainVars, runVars, uiVars, epVars, pcsVars, idVars>>
    \/ /\ char_count = 0 /\ comp_pc = "idle" /\ TakesBackground(variant)
       /\ BgStart
       /\ UNCHANGED <<textVars, compVars, charVars, mainVars, runVars, uiVars, epVars, pcsVars, idVars>>
    \/ BgItem /\ UNCHANGED <<textVars, compVars, charVars, mainVars, runVars, uiVars, epVars, pcsVars, idVars>>
    \/ BgReturn /\ UNCHANGED <<textVars, compVars, charVars, mainVars, runVars, uiVars, epVars, pcsVars, idVars>>
    \/ Tick /\ UNCHANGED <<textVars, batchVars, compVars, charVars, mainVars, runVars, uiVars, epVars, pcsVars, idVars>>
SpecStage == StageInit /\ [][StageNext]_vars

(***************************************************************************)
(* Claims about the text stages                                            *)
(***************************************************************************)
HasChar(text, c) == \E i \in 1..Len(text) : text[i] = c

\* C1: whenever the response is prefix + J + suffix, J the text of a JSON
\* object and neither pad holding a brace, the stage returns the object J denotes.
ContractRoundTrip ==
    origin.kind = "embedded" => result = Value(origin.val)

\* an object of two members, one key holding braces, was recovered from a
\* response with commentary on both sides
ContractRoundTripWitness ==
    /\ origin.kind = "embedded"
    /\ Len(origin.val[2]) = 2
    /\ origin.val[2][1][1] = <<"}", "{">>
    /\ response_text[1] = "a"
    /\ response_text[Len(response_text)] = "]"
    /\ result = Value(origin.val)

\* C2: a response without '{', or without '}', or whose last '}' comes before
\* its first '{', makes every text stage return its failure value None.
MissingBracesFailClosed ==
    (/\ origin.kind = "free"
     /\ \/ ~HasChar(response_text, "{")
        \/ ~HasChar(response_text, "}")
        \/ PyRFind(response_text, "}") < PyFind(response_text, "{"))
    => result = None

\* '}' is the last character and there is no '{': the slice is "}" and fails
MissingBracesWitness ==
    /\ origin.kind = "free"
    /\ Len(response_text) = 3
    /\ response_text[3] = "}"
    /\ ~HasChar(response_text, "{")
    /\ result = None

(***************************************************************************)
(* Claims about the background batch                                       *)
(***************************************************************************)
\* the items 0..n-1 that are not in F, in increasing order
Survivors(n, F) == SelectSeq([k \in 1..n |-> k - 1], LAMBDA i : i \notin F)

\* C3: a returned batch made exactly one call per item, in source order, and
\* returns one id per item outside F (raised or no image), in source order.
BatchIsolation ==
    bg_pc = "returned" =>
        /\ bg_calls = [k \in 1..bg_n |-> k - 1]
        /\ Len(generated_files) = bg_n - Cardinality(bg_failed)
        /\ \A p \in 1..Len(generated_files) :
              /\ \E t \in 0..(MaxTime + MaxBg) :
                    generated_files[p] = BgFilename(variant, Survivors(bg_n, bg_failed)[p], t)
              /\ generated_files[p] \in DOMAIN fs

\* three descriptions, the middle one failed, two ids returned
BatchIsolationWitness ==
    /\ bg_pc = "returned"
    /\ bg_n = 3
    /\ bg_failed = {1}
    /\ Len(generated_files) = 2

\* C4 as stated: the answer of the stage carries, beside the ids, a count
\* equal to the number of failed items.
BatchReportsFailureCount ==
    bg_pc = "returned" =>
        \E k \in DOMAIN bg_response.body \ {"filenames"} :
            bg_response.body[k] = Cardinality(bg_failed)

\* C4 amended: the answer carries the ids only; the number of failed items is
\* the number of descriptions minus the number of ids answered.
BatchFailureCountDerivable ==
    bg_pc = "returned" =>
        /\ bg_response.status = 200
        /\ DOMAIN bg_response.body = {"filenames"}
        /\ bg_n - Len(bg_response.body.filenames) = Cardinality(bg_failed)

\* every item failed and the stage still answered an (empty) list
BatchFailureCountWitness ==
    /\ bg_pc = "returned"
    /\ bg_n = 2
    /\ Cardinality(bg_failed) = 2
    /\ bg_response.body.filenames = <<>>

(***************************************************************************)
(* Claims about the scene composite                                        *)
(***************************************************************************)
CountParts(parts, kind, tag) ==
    Cardinality({k \in 1..Len(parts) : parts[k].kind = kind /\ parts[k].tag = tag})

\* C5 as stated: with a background image and N character images the forwarded
\* sequence has exactly 4 + N elements.
CompositeLengthFourPlusN ==
    (comp_called /\ TakesBackground(variant)) =>
        Len(forwarded) = 4 + Len(comp_chars)

\* C5 amended: one background instruction, one background image, one character
\* instruction and N character images, preceded by the scene-instruction
\* texts: 1 of them in Story-2.py (4 + N elements), 14 in Story3.py (17 + N).
CompositeLength ==
    (comp_called /\ TakesBackground(variant)) =>
        /\ CountParts(forwarded, "text", "bg_instruction") = 1
        /\ CountParts(forwarded, "text", "char_instruction") = 1
        /\ CountParts(forwarded, "image", "image") = 1 + Len(comp_chars)
        /\ variant = "Story-2" => Len(forwarded) = 4 + Len(comp_chars)
        /\ variant = "Story3" => Len(forwarded) = 17 + Len(comp_chars)

\* a Story3 call with two character images
CompositeLengthWitness ==
    /\ comp_called
    /\ variant = "Story3"
    /\ Len(comp_chars) = 2
    /\ Len(forwarded) = 19

\* C6: the background instruction is immediately followed by the background
\* image, then the character instruction, then the character images in input
\* order up to the end; generate_content receives the list as built.
CompositeOrder ==
    (comp_called /\ TakesBackground(variant)) =>
        /\ forwarded = prompt_parts
        /\ \E p \in 1..Len(forwarded) :
              /\ forwarded[p] = TextPart("bg_instruction", 0)
              /\ Len(forwarded) = p + 2 + Len(comp_chars)
              /\ forwarded[p + 1] = ImagePart(comp_bg)
              /\ forwarded[p + 2] = TextPart("char_instruction", 0)
              /\ \A k \in 1..Len(comp_chars) :
                    forwarded[p + 2 + k] = ImagePart(comp_chars[k])
              /\ \A q \in 1..(p - 1) : forwarded[q].kind = "text"

\* two different character images, in an order the list has to keep
CompositeOrderWitness ==
    /\ comp_called
    /\ variant = "Story-2"
    /\ comp_chars = <<2, 1>>
    /\ comp_bg = 2
    /\ forwarded[5] = ImagePart(2)
    /\ forwarded[6] = ImagePart(1)

(***************************************************************************)
(* Claims about the character image                                        *)
(***************************************************************************)
\* the last two calls were for the same character and both saved an image
TwiceSameCharacter ==
    /\ char_prev.called /\ char_last.called
    /\ char_prev.character = char_last.character
    /\ char_prev.file # <<>> /\ char_last.file # <<>>

\* C9 as stated: two successful calls for the same name leave one asset,
\* under one id, holding the bytes of the second call.
OverwriteOneAsset ==
    TwiceSameCharacter =>
        /\ char_prev.file = char_last.file
        /\ fs[char_last.file] = char_last.bytes

\* C9 amended: the id of the second call holds the second call's bytes; the
\* two calls share that id, so that one asset remains, unless the generator is
\* Story3.py and the calls fall in different seconds: then the ids differ and
\* the first asset remains beside the second.
OverwriteUnlessStamped ==
    TwiceSameCharacter =>
        /\ fs[char_last.file] = char_last.bytes
        /\ (variant # "Story3" \/ char_prev.time = char_last.time)
              => char_prev.file = char_last.file
        /\ (variant = "Story3" /\ char_prev.time # char_last.time)
              => /\ char_prev.file # char_last.file
                 /\ fs[char_prev.file] = char_prev.bytes

\* Story-2 naming, the second call a second later with other bytes
OverwriteWitness ==
    /\ TwiceSameCharacter
    /\ variant = "Story-2"
    /\ char_prev.time # char_last.time
    /\ char_prev.bytes # char_last.bytes
    /\ char_last.character.name = <<"A", " ", "b">>
    /\ fs[char_last.file] = char_last.bytes

(***************************************************************************)
(* Claims about the pipeline run                                           *)
(***************************************************************************)
Occurs(x, seq) == \E k \in 1..Len(seq) : seq[k] = x

\* C7 as stated: the composite of scene i uses the background asset whose
\* index is i mod (number of background assets), whatever the background
\* stage produced.
BackgroundByAssetIndex ==
    \A e \in 1..Len(composite_log) :
        composite_log[e].bg_file =
            BgFilename(variant, composite_log[e].scene % Len(background_image_files), 0)

\* C7 amended: the composite of scene i uses the asset at position i mod count
\* of the list of assets the background stage returned; that asset has index
\* i mod count when no background item failed.
BackgroundByListPosition ==
    \A e \in 1..Len(composite_log) :
        LET i == composite_log[e].scene
            count == Len(background_image_files)
        IN  /\ count > 0
            /\ composite_log[e].bg_file = background_image_files[(i % count) + 1]
            /\ count = story_data.n_bgs =>
                  composite_log[e].bg_file = BgFilename(variant, i % count, 0)

\* three scenes over the two surviving backgrounds of three: scene index 2
\* wraps around to the first of the list
BackgroundWrapWitness ==
    /\ story_data.n_bgs = 3
    /\ Len(background_image_files) = 2
    /\ Len(composite_log) = 3
    /\ composite_log[3].scene = 2
    /\ composite_log[3].bg_file = background_image_files[1]

\* C8: with no background asset the run makes no scene-image request, never
\* divides by zero, and goes on to the script request (and, when that
\* succeeds, to the audio requests).
NoBackgroundNoComposite ==
    /\ crash # "ZeroDivisionError"
    /\ background_image_files = <<>> =>
          /\ composite_log = <<>>
          /\ ~Occurs("scene_image", requests)
          /\ (scenes.ok /\ pc # "composites") => Occurs("script", requests)
          /\ (scenes.ok /\ pc = "done") =>
                Cardinality({k \in 1..Len(requests) : requests[k] = "audio"}) = scenes.n

\* scenes and characters exist, no background does, and the run completed
NoBackgroundWitness ==
    /\ pc = "done"
    /\ background_image_files = <<>>
    /\ story_data.n_bgs = 2
    /\ character_image_files # <<>>
    /\ scenes.n = 2
    /\ audio_assets = 2

ScenesObtained == scenes.ok \/ ui_scene_descriptions.some

\* C10 as stated: whoever drives the stages, scene descriptions are obtained
\* only after the character stage and the background stage have been run.
ScenesAfterCharactersAndBackgrounds ==
    ScenesObtained => {"characters", "backgrounds"} \subseteq stages_run

\* C10 amended: in the run of testing.py, scene descriptions are obtained only
\* after one character request per character description and then the
\* background request have been made (the UI and the endpoints impose no such
\* order).
ScenesAfterCharactersAndBackgroundsInMain ==
    (driver = "main" /\ scenes.ok) =>
        /\ {"characters", "backgrounds"} \subseteq stages_run
        /\ Len(requests) >= Len(story_data.chars) + 3
        /\ SubSeq(requests, 1, Len(story_data.chars) + 3) =
              <<"story">> \o [k \in 1..Len(story_data.chars) |-> "char"] \o <<"bg", "scenes">>

\* the script obtained scene descriptions for a story of two characters
ScenesInMainWitness ==
    /\ driver = "main"
    /\ scenes.ok
    /\ Len(story_data.chars) = 2
    /\ requests = <<"story", "char", "char", "bg", "scenes">>

(***************************************************************************)
(* Claims about exceptions                                                 *)
(***************************************************************************)
\* the asset ids generate_background_images can give to item i
BgIdsOf(i) == {BgFilename(variant, i, t) : t \in 0..now}

\* C11: in the character-image operation, in every background item and in
\* the scene-composite operation, an exception raised by generate_content or
\* while its response is handled is caught: the operation returns None (the
\* batch goes on without an id for that item) and nothing reaches the caller.
MultiModalFailClosed ==
    /\ (char_last.called /\ ExceptionOf(char_last.response) # "none")
          => (~char_last.raised /\ char_last.file = <<>>)
    /\ (comp_called /\ ExceptionOf(comp_response) # "none") => comp_result = None
    /\ bg_pc # "raised"
    /\ \A i \in bg_raised :
          \A k \in 1..Len(generated_files) : generated_files[k] \notin BgIdsOf(i)
    /\ bg_pc = "returned" => (Len(bg_calls) = bg_n /\ bg_response.status = 200)

\* a batch of two whose first item raised and whose second item was still
\* generated
MultiModalFailClosedWitness ==
    /\ bg_pc = "returned"
    /\ bg_n = 2
    /\ bg_raised = {0}
    /\ Len(generated_files) = 1
    /\ generated_files[1] \in BgIdsOf(1)

\* C12: in every text stage (story, scene descriptions, script, audio
\* description) an exception raised by the text capability is caught and the
\* stage returns its failure value None; it does not leave the operation.
TextCapabilityExceptionCaught ==
    origin.kind = "raise" => result = None

(***************************************************************************)
(* Claims about failures in the pipeline run                               *)
(***************************************************************************)
LastRequestIs(name) == requests # <<>> /\ requests[Len(requests)] = name

\* the assets held by the run and stored in the working directory
RunAssets == <<fs, character_image_files, background_image_files, scene_image_files>>

\* C13: in the run of testing.py, once the story call, the scene-description
\* call or the script call has reported failure, that call stays the last
\* request of the run, and the step that reports the failure, like every
\* step after it, leaves the files and the lists of produced assets as they
\* were.
StageFailureStopsRun ==
    /\ []((Occurs("story", requests) /\ ~story_data.ok) => LastRequestIs("story"))
    /\ []((Occurs("scenes", requests) /\ ~scenes.ok) => LastRequestIs("scenes"))
    /\ []((Occurs("script", requests) /\ ~script_data.ok) => LastRequestIs("script"))
    /\ [][(pc = "returned" \/ pc' = "returned") => RunAssets' = RunAssets]_vars

\* the scene-description call failed after character and background
\* images had been produced
StageFailureWitness ==
    /\ pc = "returned"
    /\ LastRequestIs("scenes")
    /\ ~scenes.ok
    /\ character_image_files # <<>>
    /\ background_image_files # <<>>
    /\ DOMAIN fs # {}

CountOf(x, seq) == Cardinality({k \in 1..Len(seq) : seq[k] = x})

\* C14: in the run of testing.py a failed character-image request or a failed
\* audio-description request does not end the run or its loop: every item of
\* the stage is requested, whatever the outcome of the items before it, and
\* once the character loop is over the background request is made.
ItemFailuresIsolated ==
    /\ crash \notin RequestExceptions
    /\ (pc = "chars" /\ story_data.has_chars) => CountOf("char", requests) = m_i
    /\ pc \in {"scenes", "composites", "audio", "done"} =>
          /\ CountOf("char", requests) = Len(story_data.chars)
          /\ Occurs("bg", requests)
    /\ pc = "audio" => CountOf("audio", requests) = m_i
    /\ pc = "done" => CountOf("audio", requests) = scenes.n

\* both character items and both audio items failed, and the run still
\* reached its summary
ItemFailuresWitness ==
    /\ pc = "done"
    /\ Len(story_data.chars) = 2
    /\ character_image_files = <<>>
    /\ Occurs("bg", requests)
    /\ scenes.n = 2
    /\ audio_assets = 0
    /\ CountOf("audio", requests) = 2

(***************************************************************************)
(* Claims about the story contract in the pipeline run                     *)
(***************************************************************************)
\* a request of a stage after the story stage has been made
LaterStageStarted ==
    \E k \in 1..Len(requests) : requests[k] # "story"

\* C15 as stated: the run goes past the story stage only with a story that
\* contains the key storyline; a parsed object without it is a stage failure.
StoryReadyNeedsStoryline ==
    /\ (story_data.ok \/ LaterStageStarted) => story_data.has_storyline
    /\ (story_result.ok /\ ~story_result.has_storyline) => ~story_data.ok

\* C15 amended: the run goes past the story stage exactly when the story
\* operation returned a non-empty object, with or without the key storyline;
\* main then holds that object unchanged.
StoryReadyIffNonEmptyObject ==
    Occurs("story", requests) =>
        /\ story_data.ok <=> story_result.ok
        /\ story_result.ok => story_data = story_result
        /\ (pc = "returned" /\ LastRequestIs("story")) <=> ~story_result.ok

\* a story without storyline after which the background request was made
StoryWithoutStorylineWitness ==
    /\ story_result.ok
    /\ ~story_result.has_storyline
    /\ story_data = story_result
    /\ Occurs("bg", requests)

\* C16: a story whose character_descriptions (or background_descriptions) is
\* empty or absent is accepted: the stage that iterates it produces no item
\* and the run goes on without raising.
EmptyOrAbsentSequencesAccepted ==
    /\ (story_data.ok /\ story_data.chars = <<>>) =>
          (crash = "none" /\ character_image_files = <<>>)
    /\ (story_data.ok /\ story_data.n_bgs = 0) =>
          (crash = "none" /\ background_image_files = <<>>)

\* the scenes the composite loop of the run has gone past without a request
SkippedScenes ==
    {i \in 0..(m_i - 1) :
        \A k \in 1..Len(composite_log) : composite_log[k].scene # i}

\* C17: a character or background image that cannot be read when the composite
\* stage needs it is raised as an error at once: the session sends no composite
\* request with the reference left out, and the run goes past no scene that
\* had character and background images without an error.
InvalidReferenceSurfaced ==
    /\ (ui_composite.pressed /\ ui_composite.missing # {})
          => ui_composite.requests = 0
    /\ (/\ driver = "main" /\ pc \in {"composites", "script", "audio", "returned"}
        /\ char_images_b64 # <<>> /\ background_image_files # <<>>
        /\ SkippedScenes # {})
          => crash # "none"

\* a text stage that got a response and failed to parse it
ParseFailed == stage # "none" /\ origin.kind # "raise" /\ result = None

HeldLater == <<ui_character_images, ui_scene_descriptions, ui_final_scene_images>>

\* C19: after the story stage is invoked again, successfully or not, the
\* outputs held for the later stages (character images, scene descriptions,
\* scene composites) are what they were before.
StoryAgainKeepsLaterStages ==
    ui_story_press.pressed => HeldLater = ui_story_press.before

\* C19 as the code has it: a successful story request replaces the story and
\* clears the character images, scene descriptions and scene composites the
\* session held (their files stay in the working directory); a failed one
\* clears the story alone and leaves those three as they were.
StoryAgainResetsLaterStages ==
    /\ (ui_story_press.pressed /\ ui_story_press.ok) =>
          /\ ui_story_data.ok
          /\ HeldLater = <<<<>>, NoScenes, <<>>>>
          /\ Range(ui_story_press.before[1]) \subseteq DOMAIN fs
    /\ (ui_story_press.pressed /\ ~ui_story_press.ok) =>
          /\ ui_story_data = NoStory
          /\ HeldLater = ui_story_press.before

StoryAgainWitness ==
    /\ ui_story_press.pressed /\ ui_story_press.ok
    /\ ui_story_press.before[1] # <<>>
    /\ ui_story_press.before[2].some
    /\ ui_character_images = <<>>

\* the place of a request, and of a position of main, in the pipeline
StageRank(name) ==
    CASE name = "story" -> 1
      [] name \in {"char", "chars"} -> 2
      [] name = "bg" -> 3
      [] name = "scenes" -> 4
      [] name \in {"scene_image", "composites"} -> 5
      [] name = "script" -> 6
      [] name = "audio" -> 7
      [] OTHER -> 8

\* C20: the requests of a run are made in the order story, character images,
\* background images, scene descriptions, scene composites, script, audio
\* descriptions: no request of an earlier stage follows one of a later stage,
\* the single-request stages are requested once at most, and no request is
\* made for a stage the run has not reached yet.
PipelineOrder ==
    driver = "main" =>
        /\ \A k \in 1..(Len(requests) - 1) :
              /\ StageRank(requests[k]) <= StageRank(requests[k + 1])
              /\ requests[k] = requests[k + 1]
                    => requests[k] \in {"char", "scene_image", "audio"}
        /\ requests # <<>> =>
              /\ requests[1] = "story"
              /\ StageRank(requests[Len(requests)]) <= StageRank(pc)

\* a run that made the requests of all seven stages
PipelineOrderWitness ==
    /\ driver = "main"
    /\ {requests[k] : k \in 1..Len(requests)} =
          {"story", "char", "bg", "scenes", "scene_image", "script", "audio"}
    /\ CountOf("char", requests) = 2
    /\ CountOf("audio", requests) = 2

CharacterSelectionFull ==
    /\ \A n \in 1..Len(composite_log) :
          /\ composite_log[n].char_files = character_image_files
          /\ composite_log[n].character_images_base64 =
                [k \in 1..Len(character_image_files) |->
                    B64Encode(fs[character_image_files[k]])]
    /\ ui_composite.pressed =>
          /\ Len(ui_composite.sent) = Len(ui_composite.held)
          /\ \A k \in 1..Len(ui_composite.sent) :
                ui_composite.sent[k] \in {B64Encode(b) : b \in ImageBytes}

\* a run that made three composite requests with two character images
CharacterSelectionWitness ==
    /\ driver = "main"
    /\ Len(character_image_files) = 2
    /\ Len(composite_log) = 3
    /\ composite_log[3].scene = 2
    /\ Len(composite_log[3].character_images_base64) = 2

\* the image fields of the request the scene-image endpoint answered
ImageFields ==
    {ep_body.char_images[k] : k \in 1..Len(ep_body.char_images)}
    \cup (IF ep_route[1] = "new_server" THEN {ep_body.bg_image} ELSE {})

\* C23: a request whose body is absent or lacks a required field, or (scene
\* image) has an image field that is not valid Base64, is answered 400 with
\* an error value, and the generator is not called for it.
RequestValidation ==
    ep_route # <<>> =>
        ((\/ MissingFields(ep_body, RequiredKeys(ep_route[1], ep_route[2]))
          \/ /\ ep_route[2] = "scene_image"
             /\ \E t \in ImageFields : ~ValidBase64(t))
         => (ep_status = 400 /\ ep_error /\ ~ep_called))

\* C24: when the story stage succeeds, process_complete_story returns a
\* record whose generated_images has one entry per character description, in
\* order, with status success exactly when image_file is present; when the
\* story stage fails, it returns no record and makes no image call.
StatusRecordComplete ==
    /\ (pcs_story.ok /\ pcs_pc \in {"returned", "raised"}) =>
          /\ pcs_result = "record"
          /\ Len(generated_images) = Len(pcs_story.chars)
          /\ \A k \in 1..Len(generated_images) :
                /\ generated_images[k].character = pcs_story.chars[k].name
                /\ generated_images[k].status = "success"
                      <=> generated_images[k].image_file # <<>>
                /\ generated_images[k].status = "failed"
                      <=> generated_images[k].image_file = <<>>
    /\ (~pcs_story.ok /\ pcs_pc \in {"returned", "raised"}) =>
          /\ pcs_result # "record"
          /\ pcs_calls = 0

\* the 1-based positions of the first '{' and of the last '}' of the response
FirstOpen == CHOOSE i \in 1..Len(response_text) :
                /\ response_text[i] = "{"
                /\ \A j \in 1..(i - 1) : response_text[j] # "{"
LastClose == CHOOSE i \in 1..Len(response_text) :
                /\ response_text[i] = "}"
                /\ \A j \in (i + 1)..Len(response_text) : response_text[j] # "}"
HasBraces ==
    /\ \E i \in 1..Len(response_text) : response_text[i] = "{"
    /\ \E i \in 1..Len(response_text) : response_text[i] = "}"

\* C25: what a text stage returns is the parse of exactly the substring from
\* the first '{' to the last '}' of the response, inclusive (nothing when a
\* brace is missing or that substring does not parse); so with a '{' in the
\* commentary before an embedded object, or a '}' in the commentary after
\* it, the stage does not return the embedded object.
PermissiveExtraction ==
    (stage # "none" /\ origin.kind # "raise") =>
        /\ IF HasBraces /\ JsonLoads(SubSeq(response_text, FirstOpen, LastClose)).ok
           THEN result = Value(JsonLoads(SubSeq(response_text, FirstOpen, LastClose)).val)
           ELSE result = None
        /\ origin.kind = "braced" => result # Value(origin.val)

\* a '{' written before an embedded object widened the substring handed to
\* the parser, and the stage returned nothing
PermissiveExtractionWitness ==
    /\ origin.kind = "braced"
    /\ Len(response_text) > 2
    /\ response_text[1] = "{" /\ response_text[2] = "{"
    /\ FirstOpen = 1
    /\ result = None

\* main has returned, printed its summary, or ended with a traceback
MainEnded == pc \in {"done", "returned", "crashed"}

\* an upper bound on the steps main still has to take
StepsAfterBackgrounds == 2 * MaxScenes + 3
StepsLeft ==
    CASE pc = "story" -> MaxChars + 2 + StepsAfterBackgrounds
      [] pc = "chars" -> (Len(story_data.chars) - m_i) + 1 + StepsAfterBackgrounds
      [] pc = "scenes" -> StepsAfterBackgrounds
      [] pc = "composites" -> (scenes.n - m_i) + scenes.n + 2
      [] pc = "audio" -> (scenes.n - m_i) + 1
      [] OTHER -> 0

\* C26: the run always terminates, after at most one story request, one
\* request per character, one background request, one scene-description
\* request, one composite request per scene, one script request and one audio
\* request per scene, no item being requested twice: the requests stay within
\* those counts, every step of main lowers a natural number, and main is
\* never stuck before its end, so a run that keeps going reaches its end.
RunTerminates ==
    /\ [](/\ CountOf("story", requests) <= 1
          /\ CountOf("char", requests) <= Len(story_data.chars)
          /\ CountOf("bg", requests) <= 1
          /\ CountOf("scenes", requests) <= 1
          /\ CountOf("scene_image", requests) <= scenes.n
          /\ CountOf("script", requests) <= 1
          /\ CountOf("audio", requests) <= scenes.n
          /\ StepsLeft >= 0
          /\ (~MainEnded => ENABLED MainNext)
          /\ (MainEnded => ~ENABLED MainNext))
    /\ [][StepsLeft' < StepsLeft]_vars

\* a run that ended after the largest number of requests
RunTerminatesWitness ==
    /\ pc = "done"
    /\ Len(story_data.chars) = MaxChars
    /\ scenes.n = MaxScenes
    /\ Len(requests) = 4 + MaxChars + 2 * MaxScenes

(***************************************************************************)
(* Claims about asset ids, composite preconditions and the UI session      *)
(***************************************************************************)
\* C27: the file name under which a character image is saved differs from
\* the name of every background image and of every scene composite, so a
\* save of one kind never lands on a file saved for another kind
IdsNeverCollide ==
    \A j \in 1..Len(put_log), k \in 1..Len(put_log) :
        put_log[j].kind # put_log[k].kind => put_log[j].file # put_log[k].file

\* the entries of a list of encoded images that hold bytes (not null)
AvailableImages(list) == {k \in 1..Len(list) : list[k] # <<>>}

\* C28: every composite request of the run carries at least one character
\* image as bytes and the selected background as bytes, and every press of
\* button 4 that makes requests sends at least one character image.
CompositeNeedsAssets ==
    /\ \A k \in 1..Len(composite_log) :
          /\ AvailableImages(composite_log[k].character_images_base64) # {}
          /\ composite_log[k].background_image_base64 # <<>>
    /\ (ui_composite.pressed /\ ui_composite.requests > 0)
          => AvailableImages(ui_composite.sent) # {}

\* a press of button 2, 3 or 4
LaterButtonPressed == ui_clicks' # ui_clicks /\ ui_story_press' = NoStoryPress

\* a press of button 4
CompositePressed == ui_clicks' # ui_clicks /\ ui_composite'.last

\* C29: buttons 2, 3 and 4 are pressed, and their outputs displayed, only
\* while the session holds a story; button 4 only while it also holds at
\* least one character image and at least one scene description.
UiStageGating ==
    /\ [](~ui_story_data.ok =>
              /\ ShownCharacterImages = <<>>
              /\ ShownSceneDescriptions = NoScenes
              /\ ShownFinalSceneImages = <<>>)
    /\ [][LaterButtonPressed => ui_story_data.ok]_vars
    /\ [][CompositePressed =>
              /\ ui_character_images # <<>>
              /\ ui_scene_descriptions.some /\ ui_scene_descriptions.n > 0]_vars

\* button 4 has produced composites in a session holding a story
UiStageGatingWitness ==
    /\ ui_story_data.ok
    /\ ui_composite.pressed
    /\ ui_composite.requests > 0
    /\ ShownFinalSceneImages # <<>>

\* the composites held were made by the last press of button 4 from the
\* character images and the scene descriptions the session holds now
CompositesCurrent ==
    /\ ui_composite.pressed
    /\ ui_composite.held = ui_character_images
    /\ ui_scene_descriptions.some
    /\ ui_composite.requests = ui_scene_descriptions.n

\* C30: whenever the session holds scene composites, they were generated
\* from the character images and the scene descriptions it holds now.
NoStaleComposites == ui_final_scene_images # <<>> => CompositesCurrent

====
